---- MODULE Spec2Model ----
(***************************************************************************)
(* A model of af-xdp-lib: the single-producer/single-consumer rings shared *)
(* with the kernel (ring/inner.rs), the typed frame descriptors            *)
(* (descriptor/mod.rs, umem_packet_desc.rs), the UMEM with its marker      *)
(* guard and descriptor pool (umem.rs, umem/mod.rs, umem/maker_guard.rs),  *)
(* the circulation of chunks between application and kernel, the sockets,  *)
(* ring sets and XSKMAP entries with their teardown (xsk_map.rs, umem.rs,  *)
(* ring/mod.rs), and the wakeup flag with poke (ring/inner.rs).            *)
(*                                                                         *)
(* Machine integers keep their width.  TLC's integers are 32-bit signed,   *)
(* so a u32 is a pair and a u64/usize a quadruple of 16-bit limbs, least   *)
(* significant first, and the arithmetic is done limb by limb.             *)
(***************************************************************************)
EXTENDS Integers, Sequences, FiniteSets, Bags, TLC

VARIABLES
    \* ---- the build ----
    overflow_checks,   \* TRUE: arithmetic overflow panics (debug); FALSE: wraps
    \* ---- one InnerRing on its own (RingSpec) ----
    ring_kind,         \* the FrameDescriptor type parameter of the ring
    ring,              \* the shared memory: producer, consumer: AtomicU32 and
                       \* ring_region: [FrameDescriptor::RingType; RING_SIZE]
    ring_ret,          \* what the last push/pop returned, with its argument
    pushed,            \* ring representations of the successful pushes, in order
    popped,            \* the descriptors returned by the successful pops, in order
    \* ---- one frame descriptor held by the application (DescSpec) ----
    desc,              \* the descriptor
    desc_ret,          \* the last operation on it: name, arguments, result, descriptor before
    \* ---- the UMEMs of the process (UmemSpec) ----
    api,               \* the generation of Umem: "flag" (umem.rs) or "token" (umem/mod.rs)
    USED_MARKERS,      \* static USED_MARKERS: the set of marker types in use
    umems,             \* the Umem values constructed so far, in order of construction
    tokens,            \* the DescriptorsToken<Marker> values the application holds, by marker
    umem_ret,          \* the last call on Umem: name, arguments, result
    \* ---- one UMEM with its four rings, application and kernel (Spec) ----
    app,               \* the frame descriptors the application holds (a bag)
    rings,             \* the FILL, RX, TX and COMPLETION rings of the socket
    \* ---- one Umem, its sockets, ring sets and XSKMAP (LifeSpec) ----
    umem,              \* the Umem: memory, initial_rings_given_out, socket, dropped
    sockets,           \* the AF_XDP sockets opened so far: Arc strong count, open, bound
    xsk_map,           \* the kernel's XSKMAP: index -> socket, 0 where there is no entry
    ring_sets,         \* the ring sets returned so far, in order of creation
    pending,           \* the effects the drop in progress has still to perform, in order
    binds,             \* the bind_socket calls made on the Umem, in order
    life_ret,          \* the last rings()/rx_tx_only()/drop: arguments, result, state before
    \* ---- the flags word of one ring and its poke (WakeSpec) ----
    wake_ring,         \* which ring: "rx", "tx", "fill" or "completion"
    ring_flags,        \* the flags word the kernel shares: <<word>>, or <<>> when there is none
    syscalls,          \* the syscalls issued on the ring's socket, in order
    wake_ret,          \* the last needs_wakeup()/poke(): result, flags word it saw
    \* ---- one ring with the kernel running on its other side (ConcSpec) ----
    side,              \* the application's side of the ring: "producer" or "consumer"
    pusher,            \* the push in progress: position, the producer value it loaded, input
    popper,            \* the pop in progress: position, the consumer value it loaded
    \* ---- one instantiation of the ring types at a RING_SIZE (SizeSpec) ----
    ring_size,         \* the const parameter RING_SIZE: a usize, 64 bits
    size_ret,          \* the last step: whether the const block accepted, counters, fill level
    \* ---- threads sharing one Umem, marker or XskMapStorage (the Race specs) ----
    threads,           \* thread -> where it is in its call, and the call's locals
    mutex,             \* the thread holding the Mutex of the shared value, 0 when it is free
    history            \* what the threads did to the shared value, in the order it happened

ringVars == <<ring_kind, ring, ring_ret, pushed, popped>>
descVars == <<desc, desc_ret>>
umemVars == <<api, USED_MARKERS, umems, tokens, umem_ret>>
sysVars == <<app, rings>>
lifeVars == <<umem, sockets, xsk_map, ring_sets, pending, binds, life_ret>>
wakeVars == <<wake_ring, ring_flags, syscalls, wake_ret>>
concVars == <<side, pusher, popper>>
sizeVars == <<ring_size, size_ret>>
raceVars == <<threads, mutex, history>>
vars == <<overflow_checks, ringVars, descVars, umemVars, sysVars, lifeVars, wakeVars, concVars, sizeVars, raceVars>>

-----------------------------------------------------------------------------
(* Program parameters (const generics), with the values the tests use.      *)

\* const CHUNK_SIZE: usize = 4096
CHUNK_SIZE == 4096
\* const RING_SIZE: usize = 4
RING_SIZE == 4

(* Bounds of the model.                                                     *)

\* number_of_chunks of the UMEMs considered
MaxChunks == 2
\* successful pushes onto the ring considered on its own
MaxPushes == 5
\* Umem values constructed in one run of the process
MaxUmems == 2
\* entries published on each of the four rings of the socket
MaxPublished == 2

-----------------------------------------------------------------------------
(* Fixed-width unsigned integers as limb sequences.                         *)

Limb == 2 ^ 16

\* the k-limb word of a natural number below 2^31
Word(n, k) == [i \in 1..k |-> IF i = 1 THEN n % Limb ELSE IF i = 2 THEN n \div Limb ELSE 0]

\* the largest k-limb word: u32::MAX for k = 2, u64::MAX / usize::MAX for k = 4
MaxWord(k) == [i \in 1..k |-> Limb - 1]

U32(n) == Word(n, 2)
U64(n) == Word(n, 4)

\* carries of the limb-wise addition a + b
Carry(a, b) ==
    LET c[i \in 0..Len(a)] == IF i = 0 THEN 0 ELSE (a[i] + b[i] + c[i - 1]) \div Limb
    IN  c

\* a + b modulo 2^(16 * Len(a))
WrapAdd(a, b) ==
    LET c == Carry(a, b)
    IN  [i \in 1..Len(a) |-> (a[i] + b[i] + c[i - 1]) % Limb]

\* whether a + b leaves the width
AddOverflows(a, b) == Carry(a, b)[Len(a)] = 1

\* borrows of the limb-wise subtraction a - b
Borrow(a, b) ==
    LET c[i \in 0..Len(a)] == IF i = 0 THEN 0
                              ELSE IF a[i] - b[i] - c[i - 1] < 0 THEN 1 ELSE 0
    IN  c

\* a - b modulo 2^(16 * Len(a))
WrapSub(a, b) ==
    LET c == Borrow(a, b)
    IN  [i \in 1..Len(a) |-> (a[i] - b[i] - c[i - 1] + Limb) % Limb]

\* a < b, as unsigned numbers
WordLt(a, b) == Borrow(a, b)[Len(a)] = 1

WordLe(a, b) == ~WordLt(b, a)

\* `x as usize` / `x as u64` of a u32: zero extension
Widen(a) == a \o <<0, 0>>

\* x & (m - 1) for a power of two m <= 2^16, as a natural number
LowBits(a, m) == a[1] % m

\* x & !(m - 1) for a power of two m <= 2^16
ClearLowBits(a, m) == [a EXCEPT ![1] = a[1] - (a[1] % m)]

-----------------------------------------------------------------------------
(* Frame descriptors: descriptor/mod.rs (and, with the same arithmetic,     *)
(* umem_packet_desc.rs).  A chunk reference (`memory`) is the byte offset   *)
(* of the referenced chunk from the start of the UMEM.                      *)

\* XdpDescOptions bit sets the model passes through
OptionsValues == {0, 1}

\* XdpDescOptions::empty()
EmptyOptions == 0

\* NonNull::byte_add / the pointer arithmetic on the UMEM base
byte_add(memory, offset) == WrapAdd(memory, offset)

\* SealedDescriptorImpl::base_addr for RxTxFrameDescriptor (on the XdpDesc)
RxTx_base_addr(xdp_desc) == ClearLowBits(xdp_desc.addr, CHUNK_SIZE)

\* SealedDescriptorImpl::base_addr for FillCompFrameDescriptor (on the u64)
FillComp_base_addr(addr) == ClearLowBits(addr, CHUNK_SIZE)

RxTx_from_desc(ring_repr, memory) ==
    [kind |-> "RxTx", descriptor |-> ring_repr, memory |-> memory]

FillComp_from_desc(ring_repr, memory) ==
    [kind |-> "FillComp", addr |-> ring_repr, memory |-> memory]

RxTx_from_ring_repr(ring_repr, umem_memory) ==
    LET offset == ClearLowBits(ring_repr.addr, CHUNK_SIZE)
    IN  [kind |-> "RxTx", descriptor |-> ring_repr,
         memory |-> byte_add(umem_memory, offset)]

FillComp_from_ring_repr(ring_repr, umem_memory) ==
    LET offset == FillComp_base_addr(ring_repr)
    IN  FillComp_from_desc(ring_repr, byte_add(umem_memory, offset))

RxTx_into_ring_repr(d) == d.descriptor

FillComp_into_ring_repr(d) == d.addr

\* RxTxFrameDescriptor::data_offset
data_offset(d) == WrapSub(d.descriptor.addr, RxTx_base_addr(d.descriptor))

\* RxTxFrameDescriptor::length
length(d) == Widen(d.descriptor.len)

\* RxTxFrameDescriptor::set_options
set_options(d, options) == [d EXCEPT !.descriptor.options = options]

\* RxTxFrameDescriptor::set_addr_and_length: the result and the descriptor after
\* the call.  `+` panics on overflow in a build with overflow checks and wraps
\* in one without.
set_addr_and_length(d, offset_from_base_addr, len) ==
    LET l    == Widen(len)
        base == RxTx_base_addr(d.descriptor)
    IN  IF AddOverflows(offset_from_base_addr, l) /\ overflow_checks
        THEN [result |-> "panic", desc |-> d]
        ELSE IF WordLt(U64(CHUNK_SIZE), WrapAdd(offset_from_base_addr, l))
        THEN [result |-> "ExceedsChunkSize", desc |-> d]
        ELSE IF AddOverflows(base, offset_from_base_addr) /\ overflow_checks
        THEN [result |-> "panic", desc |-> d]
        ELSE [result |-> "Ok",
              desc   |-> [d EXCEPT !.descriptor.addr = WrapAdd(base, offset_from_base_addr),
                                   !.descriptor.len  = len]]

\* RxTxFrameDescriptor::set_length
set_length(d, len) == set_addr_and_length(d, data_offset(d), len)

\* RxTxFrameDescriptor::set_addr
set_addr(d, offset_from_base_addr) ==
    set_addr_and_length(d, offset_from_base_addr, d.descriptor.len)

\* the conversion announcing a whole chunk of data where none is meant
RxTx_from_FillComp_full(value) ==
    RxTx_from_desc([addr |-> value.addr, len |-> U32(CHUNK_SIZE),
                    options |-> EmptyOptions], value.memory)

\* From<FillCompFrameDescriptor> for RxTxFrameDescriptor
RxTx_from_FillComp(value) ==
    RxTx_from_desc([addr |-> value.addr, len |-> U32(0), options |-> EmptyOptions],
                   value.memory)

\* the conversion taking the intra-chunk offset where the chunk base is meant
FillComp_from_RxTx_offset(value) ==
    FillComp_from_desc(data_offset(value), value.memory)

\* From<RxTxFrameDescriptor> for FillCompFrameDescriptor
FillComp_from_RxTx(value) ==
    FillComp_from_desc(RxTx_base_addr(value.descriptor), value.memory)

\* whether a UMEM offset lies inside a UMEM of n chunks
InUmem(offset, n) == WordLt(offset, U64(n * CHUNK_SIZE))

-----------------------------------------------------------------------------
(* InnerRing: ring/inner.rs.  A ring is the record of the two counters and  *)
(* the slot array it points to.                                             *)

DescriptorKinds == {"FillComp", "RxTx"}

\* FrameDescriptor::into_ring_repr, by the descriptor type of the ring
into_ring_repr(kind, d) ==
    IF kind = "RxTx" THEN RxTx_into_ring_repr(d) ELSE FillComp_into_ring_repr(d)

\* FrameDescriptor::from_ring_repr, by the descriptor type of the ring
from_ring_repr(kind, ring_repr, umem_memory) ==
    IF kind = "RxTx" THEN RxTx_from_ring_repr(ring_repr, umem_memory)
    ELSE FillComp_from_ring_repr(ring_repr, umem_memory)

\* a zeroed slot, as the kernel maps the ring pages
ZeroRepr(kind) ==
    IF kind = "RxTx" THEN [addr |-> U64(0), len |-> U32(0), options |-> EmptyOptions]
    ELSE U64(0)

\* the UMEM base pointer, as an offset from itself
umem_memory == U64(0)

\* free_entries with the two counters in each other's place
free_entries_swapped(r) == WrapSub(WrapAdd(r.producer, U32(RING_SIZE)), r.consumer)

free_entries(r) == WrapSub(WrapAdd(r.consumer, U32(RING_SIZE)), r.producer)

filled_entries(r) == WrapSub(r.producer, r.consumer)

\* emptiness tested on the counters being zero, as on a freshly mapped ring
is_empty_at_zero(r) == r.producer = U32(0) /\ r.consumer = U32(0)

is_empty(r) == r.producer = r.consumer

\* fullness tested by comparing the counters without wrapping
is_full_unwrapped(r) == ~WordLt(r.producer, WrapAdd(r.consumer, U32(RING_SIZE)))

is_full(r) == filled_entries(r) = U32(RING_SIZE)

\* no descriptor (None, or the unit of Ok(()))
NoDesc == [kind |-> "none"]

\* pop that reads the slot at the producer's index instead of the consumer's
pop_reads_producer_slot(r, kind) ==
    IF ~is_empty(r)
    THEN LET c == r.consumer
             d == from_ring_repr(kind, r.ring_region[LowBits(r.producer, RING_SIZE)],
                                 umem_memory)
         IN  [ring |-> [r EXCEPT !.consumer = WrapAdd(c, U32(1))],
              tag  |-> "Some", value |-> d]
    ELSE [ring |-> r, tag |-> "None", value |-> NoDesc]

\* pop that zeroes the slot it has read
pop_clears_slot(r, kind) ==
    IF ~is_empty(r)
    THEN LET c == r.consumer
             d == from_ring_repr(kind, r.ring_region[LowBits(c, RING_SIZE)], umem_memory)
         IN  [ring |-> [r EXCEPT !.consumer = WrapAdd(c, U32(1)),
                                 !.ring_region[LowBits(c, RING_SIZE)] = ZeroRepr(kind)],
              tag  |-> "Some", value |-> d]
    ELSE [ring |-> r, tag |-> "None", value |-> NoDesc]

\* InnerRing::pop: the ring after the call and the Option returned
pop(r, kind) ==
    IF ~is_empty(r)
    THEN LET c == r.consumer
             d == from_ring_repr(kind, r.ring_region[LowBits(c, RING_SIZE)], umem_memory)
         IN  [ring |-> [r EXCEPT !.consumer = WrapAdd(c, U32(1))],
              tag  |-> "Some", value |-> d]
    ELSE [ring |-> r, tag |-> "None", value |-> NoDesc]

\* push that advances the producer counter also when it rejects the descriptor
push_counts_rejected(r, kind, input) ==
    IF ~is_full(r)
    THEN LET p == r.producer
         IN  [ring |-> [r EXCEPT !.ring_region[LowBits(p, RING_SIZE)] =
                                      into_ring_repr(kind, input),
                                 !.producer = WrapAdd(p, U32(1))],
              tag  |-> "Ok", value |-> NoDesc]
    ELSE [ring |-> [r EXCEPT !.producer = WrapAdd(r.producer, U32(1))],
          tag |-> "Err", value |-> input]

\* InnerRing::push: the ring after the call and the Result returned
push(r, kind, input) ==
    IF ~is_full(r)
    THEN LET p == r.producer
         IN  [ring |-> [r EXCEPT !.ring_region[LowBits(p, RING_SIZE)] =
                                      into_ring_repr(kind, input),
                                 !.producer = WrapAdd(p, U32(1))],
              tag  |-> "Ok", value |-> NoDesc]
    ELSE [ring |-> r, tag |-> "Err", value |-> input]

\* a ring as mapped: both counters at `start`, the slots zeroed
NewRing(kind, start) ==
    [producer |-> start, consumer |-> start,
     ring_region |-> [i \in 0..(RING_SIZE - 1) |-> ZeroRepr(kind)]]

-----------------------------------------------------------------------------
(* Umem::descriptors: umem/mod.rs (and umem.rs).                            *)

\* the pool built over the chunk indices 1..=number_of_chunks
descriptors_from_one(number_of_chunks) ==
    [i \in 1..number_of_chunks |->
        FillComp_from_ring_repr(U64((number_of_chunks + 1 - i) * CHUNK_SIZE), umem_memory)]

\* (0..number_of_chunks).map(|c| from_ring_repr((c * CHUNK_SIZE) as u64)).rev().collect()
descriptors(number_of_chunks) ==
    [i \in 1..number_of_chunks |->
        FillComp_from_ring_repr(U64((number_of_chunks - i) * CHUNK_SIZE), umem_memory)]

-----------------------------------------------------------------------------
(* The marker registry and the construction of a Umem: umem/maker_guard.rs, *)
(* umem/mod.rs (the token generation) and umem.rs (the flag generation).    *)

\* the two generations of Umem in the repository
Apis == {"flag", "token"}

\* where construction can fail in the kernel: nowhere, in socket_with, or in
\* set_xdp_umem_reg
Faults == {"none", "socket_with", "set_xdp_umem_reg"}

\* MarkerGuard::new: HashSet::insert reports whether the marker was absent
MarkerGuard_new(used_markers, marker) ==
    IF marker \in used_markers
    THEN [result |-> "MarkerAlreadyUsed", used_markers |-> used_markers]
    ELSE [result |-> "Ok", used_markers |-> used_markers \cup {marker}]

\* a guard whose drop leaves the registry as it is
MarkerGuard_drop_keeps(used_markers, marker) == used_markers

\* Drop for MarkerGuard
MarkerGuard_drop(used_markers, marker) == used_markers \ {marker}

\* Drop for Umem: the guard field is dropped (token generation), or the marker
\* is removed by Umem's own Drop (flag generation)
Umem_drop(a, used_markers, marker) ==
    IF a = "token" THEN MarkerGuard_drop(used_markers, marker)
    ELSE used_markers \ {marker}

\* Umem::new whose error path removes the marker also when the marker was
\* refused
Umem_new_releases_refused(a, used_markers, marker, fault) ==
    IF marker \in used_markers
    THEN [result |-> "MarkerAlreadyUsed", used_markers |-> used_markers \ {marker}]
    ELSE IF fault = "none"
    THEN [result |-> "Ok", used_markers |-> used_markers \cup {marker}]
    ELSE [result |-> "Rustix", used_markers |-> used_markers]

\* Umem::new, whole: the result and the registry after the call.  On a kernel
\* failure the `?` drops what was built: the guard alone after socket_with,
\* the Umem after set_xdp_umem_reg; the flag generation removes the marker
\* once more in inspect_err.
Umem_new(a, used_markers, marker, fault) ==
    IF a = "token"
    THEN LET guard == MarkerGuard_new(used_markers, marker)
         IN  IF guard.result # "Ok"
             THEN [result |-> "MarkerAlreadyUsed", used_markers |-> used_markers]
             ELSE IF fault = "socket_with"
             THEN [result |-> "Rustix",
                   used_markers |-> MarkerGuard_drop(guard.used_markers, marker)]
             ELSE IF fault = "set_xdp_umem_reg"
             THEN [result |-> "Rustix",
                   used_markers |-> Umem_drop(a, guard.used_markers, marker)]
             ELSE [result |-> "Ok", used_markers |-> guard.used_markers]
    ELSE IF marker \in used_markers
         THEN [result |-> "MarkerAlreadyUsed", used_markers |-> used_markers]
         ELSE LET inserted == used_markers \cup {marker}
              IN  IF fault = "socket_with"
                  THEN [result |-> "Rustix", used_markers |-> inserted \ {marker}]
                  ELSE IF fault = "set_xdp_umem_reg"
                  THEN [result |-> "Rustix",
                        used_markers |-> Umem_drop(a, inserted, marker) \ {marker}]
                  ELSE [result |-> "Ok", used_markers |-> inserted]

-----------------------------------------------------------------------------
(* Sockets, bind_socket, the XSKMAP and ring sets.                          *)
(*                                                                          *)
(* A socket is an Arc<OwnedFd>: `strong` counts the clones alive and the fd *)
(* is closed when the last clone is dropped.  Sockets are numbered in the   *)
(* order they were opened; the Umem's own socket (the anchor) is socket 1.  *)
(* The operators below work on a record w of the Umem (umem), the sockets   *)
(* (sockets), the XSKMAP (xsk_map) and the bind calls made (binds).         *)

\* XskMap::max_entries of the map the program was given
MaxEntries == 2

\* the Umem's `socket` field
AnchorSocket == 1

\* no socket: an empty XSKMAP slot, no shared_umem_fd
NoSocket == 0

\* socket_with(AddressFamily::XDP, ...) wrapped in Arc::new
NewSocket == [strong |-> 1, open |-> TRUE, bound |-> "no"]

\* Arc::clone, n times
CloneArc(w, socket, n) ==
    [w EXCEPT !.sockets[socket].strong = @ + n]

\* n clones of the Arc are dropped; OwnedFd closes the fd with the last one
DropArc(w, socket, n) ==
    [w EXCEPT !.sockets[socket] =
        [@ EXCEPT !.strong = @ - n, !.open = @ /\ (w.sockets[socket].strong - n > 0)]]

\* bind(2) on an AF_XDP socket: the environment decides (ok), except that a
\* socket binds once and XDP_SHARED_UMEM needs the fd of a bound socket
KernelBind(w, socket, mode, shared_umem_fd, ok) ==
    /\ ok
    /\ w.sockets[socket].bound = "no"
    /\ mode = "shared" => w.sockets[shared_umem_fd].bound # "no"

\* bind_socket that loads the flag where the code swaps it
bind_socket_load(w, socket, ok) ==
    LET mode == IF w.umem.initial_rings_given_out THEN "shared" ELSE "initial"
        shared_umem_fd == IF mode = "shared" THEN w.umem.socket ELSE NoSocket
        bound == KernelBind(w, socket, mode, shared_umem_fd, ok)
        call == [mode |-> mode, socket |-> socket,
                 shared_umem_fd |-> shared_umem_fd, ok |-> bound]
        w1 == [w EXCEPT !.sockets[socket].bound = IF bound THEN mode ELSE @,
                        !.binds = Append(@, call)]
    IN  [w |-> DropArc(w1, socket, 1), ok |-> bound]

\* bind_socket whose callers go on as if every bind had succeeded
bind_socket_unchecked(w, socket, ok) ==
    LET mode == IF w.umem.initial_rings_given_out THEN "shared" ELSE "initial"
        shared_umem_fd == IF mode = "shared" THEN w.umem.socket ELSE NoSocket
        bound == KernelBind(w, socket, mode, shared_umem_fd, ok)
        call == [mode |-> mode, socket |-> socket,
                 shared_umem_fd |-> shared_umem_fd, ok |-> bound]
        w1 == [w EXCEPT !.umem.initial_rings_given_out = TRUE,
                        !.sockets[socket].bound = IF bound THEN mode ELSE @,
                        !.binds = Append(@, call)]
    IN  [w |-> DropArc(w1, socket, 1), ok |-> TRUE]

\* Umem::bind_socket (both generations swap the flag before they bind); the
\* socket argument is dropped when the call returns
bind_socket(w, socket, ok) ==
    LET mode == IF w.umem.initial_rings_given_out THEN "shared" ELSE "initial"
        shared_umem_fd == IF mode = "shared" THEN w.umem.socket ELSE NoSocket
        bound == KernelBind(w, socket, mode, shared_umem_fd, ok)
        call == [mode |-> mode, socket |-> socket,
                 shared_umem_fd |-> shared_umem_fd, ok |-> bound]
        w1 == [w EXCEPT !.umem.initial_rings_given_out = TRUE,
                        !.sockets[socket].bound = IF bound THEN mode ELSE @,
                        !.binds = Append(@, call)]
    IN  [w |-> DropArc(w1, socket, 1), ok |-> bound]

\* Umem::xsk_map_socket (token generation): the socket and the record after
xsk_map_socket(w) ==
    IF w.umem.initial_rings_given_out
    THEN [w |-> [w EXCEPT !.sockets = Append(@, NewSocket)],
          socket |-> Len(w.sockets) + 1]
    ELSE [w |-> CloneArc(w, w.umem.socket, 1), socket |-> w.umem.socket]

\* Umem::ring_socket (flag generation)
ring_socket(w) ==
    IF w.umem.initial_rings_given_out
    THEN [w |-> [w EXCEPT !.sockets = Append(@, NewSocket)],
          socket |-> Len(w.sockets) + 1]
    ELSE [w |-> CloneArc(w, w.umem.socket, 1), socket |-> w.umem.socket]

\* set_element with BPF_ANY: an occupied slot is overwritten
set_element_any(map, socket, index) ==
    IF index \in DOMAIN map
    THEN [result |-> "Ok", map |-> [map EXCEPT ![index] = socket]]
    ELSE [result |-> "Err", map |-> map]

\* XskMap::set_element: aya's set with BPF_NOEXIST
set_element(map, socket, index) ==
    IF index \in DOMAIN map /\ map[index] = NoSocket
    THEN [result |-> "Ok", map |-> [map EXCEPT ![index] = socket]]
    ELSE [result |-> "Err", map |-> map]

\* XskMap::unset_element
unset_element(map, index) ==
    IF index \in DOMAIN map /\ map[index] # NoSocket
    THEN [result |-> "Ok", map |-> [map EXCEPT ![index] = NoSocket]]
    ELSE [result |-> "Err", map |-> map]

\* XskMapStorage::register
register(w, socket, index) ==
    LET r == set_element(w.xsk_map, socket, index)
    IN  [result |-> r.result, w |-> [w EXCEPT !.xsk_map = r.map]]

\* XskMapStorage::deregister
deregister(w, index) ==
    LET r == unset_element(w.xsk_map, index)
    IN  [result |-> r.result, w |-> [w EXCEPT !.xsk_map = r.map]]

\* XskMapEntry::new: the `?` returns before an entry exists
XskMapEntry_new(w, index, socket) == register(w, socket, index)

\* a drop of XskMapEntry that leaves the XSKMAP alone
XskMapEntry_drop_keeps(w, index) == w

\* Drop for XskMapEntry: an error of deregister is logged and dropped
XskMapEntry_drop(w, index) == deregister(w, index).w

\* a drop of XskMapEntry that ends the teardown when deregister fails
after_deregister_abort(result, rest) == IF result = "Err" THEN <<>> ELSE rest

\* Drop for XskMapEntry after deregister returned: an Err is logged with
\* error! and the drop goes on with what is left to drop
after_deregister(result, rest) == rest

\* the rings of a ring set in the order its struct declares them
RingsOf(shape) ==
    IF shape = "Four" THEN <<"fill", "completion", "rx", "tx">> ELSE <<"rx", "tx">>

\* a ring set as returned to the caller
RingSet(shape, socket, map_index) ==
    [shape |-> shape, socket |-> socket, map_index |-> map_index,
     entry |-> TRUE, mapped |-> {RingsOf(shape)[k] : k \in 1..Len(RingsOf(shape))},
     state |-> "alive", unset |-> "none"]

NoRingSet == [shape |-> "none"]

\* RxRing::register (flag generation): the entry keeps a clone of the socket
RxRing_register(w, socket, xsk_map_index) ==
    LET e == XskMapEntry_new(w, xsk_map_index, socket)
    IN  IF e.result = "Ok"
        THEN [result |-> "Ok", w |-> CloneArc(e.w, socket, 1)]
        ELSE [result |-> "Err", w |-> w]

\* Umem::rings (flag generation), whole: bind_socket unwraps the bind, the
\* `?` after register returns the error and drops the four rings
Umem_rings(w, map_index, ok1) ==
    LET s == ring_socket(w)
        rings1 == CloneArc(s.w, s.socket, 4)
        b == bind_socket(rings1, s.socket, ok1)
        r == RxRing_register(b.w, s.socket, map_index)
    IN  IF ~b.ok
        THEN [result |-> "panic", returned |-> <<s.socket>>,
              ring_set |-> NoRingSet, w |-> DropArc(b.w, s.socket, 4)]
        ELSE IF r.result = "Ok"
        THEN [result |-> "Four", returned |-> <<s.socket>>,
              ring_set |-> RingSet("Four", s.socket, map_index), w |-> r.w]
        ELSE [result |-> "Err", returned |-> <<s.socket>>,
              ring_set |-> NoRingSet, w |-> DropArc(r.w, s.socket, 4)]

\* Umem::rx_tx_only (flag generation), whole
Umem_rx_tx_only(w, map_index, ok1) ==
    IF ~w.umem.initial_rings_given_out
    THEN [result |-> "Wip", returned |-> <<>>, ring_set |-> NoRingSet, w |-> w]
    ELSE LET s == ring_socket(w)
             rings1 == CloneArc(s.w, s.socket, 2)
             b == bind_socket(rings1, s.socket, ok1)
             r == RxRing_register(b.w, s.socket, map_index)
         IN  IF ~b.ok
             THEN [result |-> "panic", returned |-> <<s.socket>>,
                   ring_set |-> NoRingSet, w |-> DropArc(b.w, s.socket, 2)]
             ELSE IF r.result = "Ok"
             THEN [result |-> "Two", returned |-> <<s.socket>>,
                   ring_set |-> RingSet("Two", s.socket, map_index), w |-> r.w]
             ELSE [result |-> "Err", returned |-> <<s.socket>>,
                   ring_set |-> NoRingSet, w |-> DropArc(r.w, s.socket, 2)]

(* Dropping: the effects of a drop, in the order Rust performs them (a      *)
(* type's Drop first, then its fields in declaration order).                *)

RECURSIVE Concat(_)
Concat(seqs) ==
    IF seqs = <<>> THEN <<>> ELSE Head(seqs) \o Concat(Tail(seqs))

\* Drop for RingMemory: munmap of the ring
Munmap(set, name) == [ev |-> "munmap", set |-> set, ring |-> name]

\* Drop for XskMapEntry of ring set `set`
Unset(set, index) == [ev |-> "unset", set |-> set, index |-> index]

\* one Arc<OwnedFd> is dropped
DropSocket(socket) == [ev |-> "drop_socket", socket |-> socket]

\* Drop for UmemMemory: dealloc
Dealloc == [ev |-> "dealloc"]

\* the marker is removed from USED_MARKERS
ReleaseMarker == [ev |-> "release_marker"]

\* a Ring of the flag generation: ring, map_entry, _ring_memory, socket
Ring_drop(set, rs, name) ==
    (IF name = "rx" /\ rs.entry
     THEN <<Unset(set, rs.map_index), DropSocket(rs.socket)>> ELSE <<>>)
    \o <<Munmap(set, name), DropSocket(rs.socket)>>

\* a ring of the token generation: its RingMemory, then its socket
RingMemory_drop(set, rs, name) ==
    <<Munmap(set, name), DropSocket(rs.socket)>>

\* Rings and RxTXRings of the flag generation: the rings, in field order
Rings_drop(set, rs) ==
    Concat([k \in 1..Len(RingsOf(rs.shape)) |-> Ring_drop(set, rs, RingsOf(rs.shape)[k])])

\* FillCompRxTxRings and RxTxRings: _xsk_map_entry, then the rings
FillCompRxTxRings_drop(set, rs) ==
    <<Unset(set, rs.map_index)>>
    \o Concat([k \in 1..Len(RingsOf(rs.shape)) |->
                  RingMemory_drop(set, rs, RingsOf(rs.shape)[k])])

\* a ring set that unmaps its rings before it leaves the XSKMAP
RingSet_drop_entry_last(a, set, rs) ==
    Concat([k \in 1..Len(RingsOf(rs.shape)) |->
               RingMemory_drop(set, rs, RingsOf(rs.shape)[k])])
    \o <<Unset(set, rs.map_index)>>

\* dropping a ring set of generation a
RingSet_drop(a, set, rs) ==
    IF a = "token" THEN FillCompRxTxRings_drop(set, rs) ELSE Rings_drop(set, rs)

\* dropping the Umem.  Token generation: no Drop impl, fields memory,
\* socket, _marker_guard.  Flag generation: Drop removes the marker, then
\* fields memory, socket.
Umem_teardown(a, u) ==
    IF a = "token"
    THEN <<Dealloc, DropSocket(u.socket), ReleaseMarker>>
    ELSE <<ReleaseMarker, Dealloc, DropSocket(u.socket)>>

\* the Arc<OwnedFd> clones Umem::new holds before set_xdp_umem_reg: Arc::new,
\* and in the flag generation the socket.clone() stored in the Umem
Umem_new_clones(a) == IF a = "token" THEN 1 ELSE 2

\* Umem::new that forgets the Umem it built when registration fails
Umem_new_unwind_forget(a, fault) ==
    IF fault = "socket_with" THEN <<Dealloc, ReleaseMarker>>
    ELSE IF fault = "set_xdp_umem_reg" THEN <<ReleaseMarker>>
    ELSE <<>>

\* what Umem::new drops when `?` returns the kernel's error, in order: after
\* socket_with the memory and the marker; after set_xdp_umem_reg the Umem,
\* in the flag generation also the local socket, and the marker once more in
\* inspect_err
Umem_new_unwind(a, fault) ==
    IF fault = "socket_with" THEN <<Dealloc, ReleaseMarker>>
    ELSE IF fault = "set_xdp_umem_reg"
    THEN IF a = "token"
         THEN Umem_teardown(a, [socket |-> AnchorSocket])
         ELSE Umem_teardown(a, [socket |-> AnchorSocket])
                 \o <<DropSocket(AnchorSocket), ReleaseMarker>>
    ELSE <<>>

\* how many of the effects are of kind ev
CountEv(effects, ev) == Cardinality({i \in DOMAIN effects : effects[i].ev = ev})

\* what a call of Umem::new that got the marker leaves allocated and open
\* outside the value it returns: UMEM allocations, and clones of the socket
Umem_new_left(a, fault) ==
    LET unwind == Umem_new_unwind(a, fault)
        failed == fault # "none"
    IN  [memory |-> (IF failed THEN 1 ELSE 0) - CountEv(unwind, "dealloc"),
         strong |-> (IF fault = "set_xdp_umem_reg" THEN Umem_new_clones(a) ELSE 0)
                       - CountEv(unwind, "drop_socket"),
         released |-> CountEv(unwind, "release_marker") > 0]

\* the locals of the first attempt of XskMapStorage::rings that are alive
\* when the call returns through its else branch, forgotten instead of dropped
FirstAttempt_drop_forget(socket) == <<DropSocket(socket)>>

\* the locals of the first attempt of XskMapStorage::rings, dropped when the
\* call returns through its else branch (or unwinds): completion_ring,
\* fill_ring, tx_ring, rx_ring, socket, the reverse of their declaration
FirstAttempt_drop(socket) ==
    Concat([k \in 1..4 |->
               RingMemory_drop(0, [socket |-> socket],
                               <<"completion", "fill", "tx", "rx">>[k])])
        \o <<DropSocket(socket)>>

\* XskMapStorage::rings (token generation), whole.  ok1 and ok2 are what the
\* environment lets the first and the second bind do.  An unwrap that fails
\* panics and unwinding drops the locals.
XskMapStorage_rings(w, map_index, ok1, ok2) ==
    LET s1 == xsk_map_socket(w)
        rings1 == CloneArc(s1.w, s1.socket, 4)
        b1 == bind_socket(CloneArc(rings1, s1.socket, 1), s1.socket, ok1)
        unwound == FirstAttempt_drop(s1.socket)
    IN  IF b1.ok
        THEN LET e == XskMapEntry_new(b1.w, map_index, s1.socket)
             IN  IF e.result = "Ok"
                 THEN [result |-> "Four", returned |-> <<s1.socket>>,
                       ring_set |-> RingSet("Four", s1.socket, map_index),
                       unwound |-> <<>>,
                       w |-> DropArc(e.w, s1.socket, 1)]
                 ELSE [result |-> "panic", returned |-> <<s1.socket>>,
                       ring_set |-> NoRingSet,
                       unwound |-> unwound,
                       w |-> DropArc(e.w, s1.socket, CountEv(unwound, "drop_socket"))]
        ELSE LET s2 == xsk_map_socket(b1.w)
                 rings2 == CloneArc(s2.w, s2.socket, 2)
                 b2 == bind_socket(CloneArc(rings2, s2.socket, 1), s2.socket, ok2)
                 e == XskMapEntry_new(b2.w, map_index, s2.socket)
             IN  IF b2.ok /\ e.result = "Ok"
                 THEN [result |-> "Two", returned |-> <<s1.socket, s2.socket>>,
                       ring_set |-> RingSet("Two", s2.socket, map_index),
                       unwound |-> unwound,
                       w |-> DropArc(DropArc(e.w, s2.socket, 1), s1.socket,
                                     CountEv(unwound, "drop_socket"))]
                 ELSE [result |-> "panic", returned |-> <<s1.socket, s2.socket>>,
                       ring_set |-> NoRingSet,
                       unwound |-> unwound,
                       w |-> DropArc(DropArc(b2.w, s2.socket, 3), s1.socket,
                                     CountEv(unwound, "drop_socket"))]

-----------------------------------------------------------------------------
(* The flags word of a ring, needs_wakeup and poke.  An Option is a         *)
(* sequence: <<>> for None, <<v>> for Some(v).                              *)

\* bits of the flags word the model lets the kernel set
FlagBits == 2

\* XdpRingFlags::XDP_RING_NEED_WAKEUP
XDP_RING_NEED_WAKEUP == 1

Bit(n, k) == (n \div (2 ^ k)) % 2

\* XdpRingFlags::from_bits_retain: every bit is kept
from_bits_retain(word) == word

\* XdpRingFlags::contains: all bits of other are set in f
contains(f, other) ==
    \A k \in 0..(FlagBits - 1) : Bit(other, k) = 1 => Bit(f, k) = 1

\* InnerRing::flags / RingMemory::flags: the word is read at every call
flags(word_or_none) ==
    IF word_or_none = <<>> THEN <<>> ELSE <<from_bits_retain(word_or_none[1])>>

\* needs_wakeup that compares the whole word
needs_wakeup_exact(word_or_none) ==
    IF flags(word_or_none) # <<>>
    THEN flags(word_or_none)[1] = XDP_RING_NEED_WAKEUP
    ELSE FALSE

\* InnerRing::needs_wakeup
needs_wakeup(word_or_none) ==
    IF flags(word_or_none) # <<>>
    THEN contains(flags(word_or_none)[1], XDP_RING_NEED_WAKEUP)
    ELSE FALSE

\* RxRing::poke: the syscalls it issues
RxRing_poke(word_or_none) ==
    IF flags(word_or_none) # <<>>
    THEN IF flags(word_or_none)[1] = XDP_RING_NEED_WAKEUP
         THEN <<"recvfrom">> ELSE <<>>
    ELSE <<>>

\* TxRing::poke
TxRing_poke(word_or_none) ==
    IF flags(word_or_none) # <<>>
    THEN IF flags(word_or_none)[1] = XDP_RING_NEED_WAKEUP
         THEN <<"sendto">> ELSE <<>>
    ELSE <<>>

\* FillRing::poke
FillRing_poke(word_or_none) ==
    IF flags(word_or_none) # <<>>
    THEN IF flags(word_or_none)[1] = XDP_RING_NEED_WAKEUP
         THEN <<"recvfrom">> ELSE <<>>
    ELSE <<>>

\* poke of the ring type; CompletionRing has none
poke(name, word_or_none) ==
    IF name = "rx" THEN RxRing_poke(word_or_none)
    ELSE IF name = "tx" THEN TxRing_poke(word_or_none)
    ELSE FillRing_poke(word_or_none)

-----------------------------------------------------------------------------
(* push and pop, access by access.  The counters are AtomicU32: a load is   *)
(* Acquire, a store is Release, so the slot access that comes before a      *)
(* store in program order is visible to whoever loads the stored value.     *)

\* a push that publishes the producer counter and writes the slot after
PushOrder_publish_first == <<"set_producer", "write_slot">>

\* push after its is_full test, in program order
PushOrder == <<"write_slot", "set_producer">>

\* pop after its is_empty test, in program order
PopOrder == <<"read_slot", "set_consumer">>

\* a push that goes on without the full test
push_begin_untested(r, kind, input) ==
    [at |-> 1, producer |-> r.producer, seen |-> r.consumer,
     input |-> into_ring_repr(kind, input)]

\* `if !self.is_full() { let producer = self.producer();`: seen is the
\* consumer value the full test loaded
push_begin(r, kind, input) ==
    IF ~is_full(r)
    THEN [at |-> 1, producer |-> r.producer, seen |-> r.consumer,
          input |-> into_ring_repr(kind, input)]
    ELSE [at |-> 0]

\* one access of the push in progress: the ring after it
push_step(r, p) ==
    IF PushOrder[p.at] = "write_slot"
    THEN [r EXCEPT !.ring_region[LowBits(p.producer, RING_SIZE)] = p.input]
    ELSE [r EXCEPT !.producer = WrapAdd(p.producer, U32(1))]

\* `if !self.is_empty() { let consumer = self.consumer();`: seen is the
\* producer value the empty test loaded
pop_begin(r) ==
    IF ~is_empty(r)
    THEN [at |-> 1, consumer |-> r.consumer, seen |-> r.producer]
    ELSE [at |-> 0]

\* one access of the pop in progress: the ring after it and the slot read
pop_step(r, c) ==
    IF PopOrder[c.at] = "read_slot"
    THEN [ring |-> r, read |-> <<r.ring_region[LowBits(c.consumer, RING_SIZE)]>>]
    ELSE [ring |-> [r EXCEPT !.consumer = WrapAdd(c.consumer, U32(1))], read |-> <<>>]

\* the position after an access
Advance(at, order) == IF at = Len(order) THEN 0 ELSE at + 1

-----------------------------------------------------------------------------
(* Values of the variables a specification does not use.                    *)

\* ---- the const parameter RING_SIZE ----

\* the usize with only bit k set; the zero word when k is past the width
Pow2(k) == [i \in 1..4 |-> IF i = (k \div 16) + 1 THEN 2 ^ (k % 16) ELSE 0]

\* a >> 1
Shr1(a) ==
    [i \in 1..Len(a) |->
        (a[i] \div 2) + (IF i < Len(a) THEN (a[i + 1] % 2) * (Limb \div 2) ELSE 0)]

\* RING_SIZE as u32: the cast keeps the low 32 bits
as_u32(size) == SubSeq(size, 1, 2)

\* usize::is_power_of_two: exactly one bit is set
is_power_of_two(size) == \E k \in 0..63 : size = Pow2(k)

\* the const block of InnerRing::new and Ring::internal_new
const_assert(size) ==
    /\ WordLe(as_u32(size), Shr1(MaxWord(2)))
    /\ is_power_of_two(size)

\* free_entries, filled_entries and is_full of a ring instantiated at size
free_entries_at(size, producer, consumer) ==
    WrapSub(WrapAdd(consumer, as_u32(size)), producer)

filled_entries_at(producer, consumer) == WrapSub(producer, consumer)

is_full_at(size, producer, consumer) ==
    filled_entries_at(producer, consumer) = as_u32(size)

RingIdle ==
    /\ ring_kind = "none"
    /\ ring = [producer |-> U32(0), consumer |-> U32(0), ring_region |-> <<>>]
    /\ ring_ret = [op |-> "none"]
    /\ pushed = <<>>
    /\ popped = <<>>

DescIdle ==
    /\ desc = NoDesc
    /\ desc_ret = [op |-> "none"]

UmemIdle ==
    /\ api = "none"
    /\ USED_MARKERS = {}
    /\ umems = <<>>
    /\ tokens = <<>>
    /\ umem_ret = [op |-> "none"]

SysIdle ==
    /\ app = EmptyBag
    /\ rings = <<>>

LifeIdle ==
    /\ umem = [op |-> "none"]
    /\ sockets = <<>>
    /\ xsk_map = <<>>
    /\ ring_sets = <<>>
    /\ pending = <<>>
    /\ binds = <<>>
    /\ life_ret = [op |-> "none"]

WakeIdle ==
    /\ wake_ring = "none"
    /\ ring_flags = <<>>
    /\ syscalls = <<>>
    /\ wake_ret = [op |-> "none"]

ConcIdle ==
    /\ side = "none"
    /\ pusher = [at |-> 0]
    /\ popper = [at |-> 0]

SizeIdle ==
    /\ ring_size = U64(RING_SIZE)
    /\ size_ret = [op |-> "none"]

RaceIdle ==
    /\ threads = <<>>
    /\ mutex = 0
    /\ history = <<>>

-----------------------------------------------------------------------------
(* RingSpec: one InnerRing driven through push and pop, as in the unit      *)
(* tests of ring/inner.rs, from any empty starting state.                   *)

\* counter values an empty ring starts from: 0, the 3 of test_pop_empty_ring,
\* u32::MAX - 2 (the producer wraps while the consumer has not) and u32::MAX
StartCounters == {U32(0), U32(3), WrapSub(U32(0), U32(3)), MaxWord(2)}

\* descriptors offered to push: one per chunk, of the ring's descriptor type
RingInputs(kind) ==
    LET pool == descriptors(MaxChunks)
    IN  IF kind = "FillComp"
        THEN {pool[i] : i \in 1..MaxChunks}
        ELSE {set_addr_and_length(RxTx_from_FillComp(pool[i]), U64(1), U32(2)).desc :
                  i \in 1..MaxChunks}

RingInit ==
    /\ overflow_checks \in BOOLEAN
    /\ ring_kind \in DescriptorKinds
    /\ \E start \in StartCounters : ring = NewRing(ring_kind, start)
    /\ ring_ret = [op |-> "none", input |-> NoDesc, tag |-> "none",
                   value |-> NoDesc, before |-> ring]
    /\ pushed = <<>>
    /\ popped = <<>>
    /\ DescIdle
    /\ UmemIdle
    /\ SysIdle
    /\ LifeIdle
    /\ WakeIdle
    /\ ConcIdle
    /\ SizeIdle
    /\ RaceIdle

RingPush(input) ==
    /\ Len(pushed) < MaxPushes
    /\ LET res == push(ring, ring_kind, input)
       IN  /\ ring' = res.ring
           /\ ring_ret' = [op |-> "push", input |-> input, tag |-> res.tag,
                           value |-> res.value, before |-> ring]
           /\ pushed' = IF res.tag = "Ok" THEN Append(pushed, input) ELSE pushed
    /\ UNCHANGED <<overflow_checks, ring_kind, popped, descVars, umemVars, sysVars, lifeVars, wakeVars, concVars, sizeVars, raceVars>>
RingPop ==
    /\ LET res == pop(ring, ring_kind)
       IN  /\ ring' = res.ring
           /\ ring_ret' = [op |-> "pop", input |-> NoDesc, tag |-> res.tag,
                           value |-> res.value, before |-> ring]
           /\ popped' = IF res.tag = "Some" THEN Append(popped, res.value) ELSE popped
    /\ UNCHANGED <<overflow_checks, ring_kind, pushed, descVars, umemVars, sysVars, lifeVars, wakeVars, concVars, sizeVars, raceVars>>
RingNext ==
    \/ \E input \in RingInputs(ring_kind) : RingPush(input)
    \/ RingPop

RingSpec == RingInit /\ [][RingNext]_vars

-----------------------------------------------------------------------------
(* DescSpec: one frame descriptor of a UMEM of MaxChunks chunks, held by    *)
(* the application and taken through the conversions and the mutators.      *)

\* offsets passed to the mutators, from the usize range: the values at and
\* next to 0, CHUNK_SIZE and usize::MAX
Offsets ==
    {U64(0), U64(1), U64(CHUNK_SIZE - 1), U64(CHUNK_SIZE), U64(CHUNK_SIZE + 1),
     MaxWord(4)}

\* lengths passed to the mutators, from the u32 range: the values at and next
\* to 0 and CHUNK_SIZE, and u32::MAX
Lengths ==
    {U32(0), U32(1), U32(2), U32(CHUNK_SIZE - 1), U32(CHUNK_SIZE), MaxWord(2)}

\* addresses the application receives descriptors for: the chunk bases of
\* descriptors(), and the unaligned addresses a COMPLETION entry may carry
DescAddrs ==
    {U64(c * CHUNK_SIZE + off) : c \in 0..(MaxChunks - 1), off \in {0, 1, CHUNK_SIZE - 1}}

\* the chunk base of the descriptor's address
DescBase(d) ==
    IF d.kind = "RxTx" THEN RxTx_base_addr(d.descriptor) ELSE FillComp_base_addr(d.addr)

\* the thread still runs, and the descriptor's address is still inside the UMEM
\* (the cap that keeps the addresses of the model finite)
DescLive ==
    /\ desc_ret.result # "panic"
    /\ InUmem(DescBase(desc), MaxChunks)

Conversions == {"into_rx_tx", "into_fill_comp"}

\* the record of an operation: its arguments, its result, the descriptor it
\* was called on and, for a conversion that follows a conversion, the
\* descriptor the first of the two was called on
DescRet(op, o, l, result) ==
    [op |-> op, o |-> o, l |-> l, result |-> result, before |-> desc,
     origin |-> IF op \in Conversions /\ desc_ret.op \in Conversions
                THEN desc_ret.before ELSE NoDesc]

DescInit ==
    /\ overflow_checks \in BOOLEAN
    /\ \E addr \in DescAddrs : desc = FillComp_from_ring_repr(addr, umem_memory)
    /\ desc_ret = [op |-> "init", o |-> U64(0), l |-> U32(0), result |-> "none",
                   before |-> desc, origin |-> NoDesc]
    /\ RingIdle
    /\ UmemIdle
    /\ SysIdle
    /\ LifeIdle
    /\ WakeIdle
    /\ ConcIdle
    /\ SizeIdle
    /\ RaceIdle

DescSetAddrAndLength(o, l) ==
    /\ DescLive
    /\ desc.kind = "RxTx"
    /\ LET res == set_addr_and_length(desc, o, l)
       IN  /\ desc' = res.desc
           /\ desc_ret' = DescRet("set_addr_and_length", o, l, res.result)
    /\ UNCHANGED <<overflow_checks, ringVars, umemVars, sysVars, lifeVars, wakeVars, concVars, sizeVars, raceVars>>
DescSetLength(l) ==
    /\ DescLive
    /\ desc.kind = "RxTx"
    /\ LET res == set_length(desc, l)
       IN  /\ desc' = res.desc
           /\ desc_ret' = DescRet("set_length", data_offset(desc), l, res.result)
    /\ UNCHANGED <<overflow_checks, ringVars, umemVars, sysVars, lifeVars, wakeVars, concVars, sizeVars, raceVars>>
DescSetAddr(o) ==
    /\ DescLive
    /\ desc.kind = "RxTx"
    /\ LET res == set_addr(desc, o)
       IN  /\ desc' = res.desc
           /\ desc_ret' = DescRet("set_addr", o, desc.descriptor.len, res.result)
    /\ UNCHANGED <<overflow_checks, ringVars, umemVars, sysVars, lifeVars, wakeVars, concVars, sizeVars, raceVars>>
DescSetOptions(options) ==
    /\ DescLive
    /\ desc.kind = "RxTx"
    /\ desc' = set_options(desc, options)
    /\ desc_ret' = DescRet("set_options", U64(0), U32(0), "Ok")
    /\ UNCHANGED <<overflow_checks, ringVars, umemVars, sysVars, lifeVars, wakeVars, concVars, sizeVars, raceVars>>
DescIntoRxTx ==
    /\ DescLive
    /\ desc.kind = "FillComp"
    /\ desc' = RxTx_from_FillComp(desc)
    /\ desc_ret' = DescRet("into_rx_tx", U64(0), U32(0), "Ok")
    /\ UNCHANGED <<overflow_checks, ringVars, umemVars, sysVars, lifeVars, wakeVars, concVars, sizeVars, raceVars>>
DescIntoFillComp ==
    /\ DescLive
    /\ desc.kind = "RxTx"
    /\ desc' = FillComp_from_RxTx(desc)
    /\ desc_ret' = DescRet("into_fill_comp", U64(0), U32(0), "Ok")
    /\ UNCHANGED <<overflow_checks, ringVars, umemVars, sysVars, lifeVars, wakeVars, concVars, sizeVars, raceVars>>
DescNext ==
    \/ \E o \in Offsets, l \in Lengths : DescSetAddrAndLength(o, l)
    \/ \E l \in Lengths : DescSetLength(l)
    \/ \E o \in Offsets : DescSetAddr(o)
    \/ \E options \in OptionsValues : DescSetOptions(options)
    \/ DescIntoRxTx
    \/ DescIntoFillComp

DescSpec == DescInit /\ [][DescNext]_vars

-----------------------------------------------------------------------------
(* UmemSpec: the process constructs and drops Umem values and asks them for *)
(* their descriptors.                                                       *)

\* the marker types the application declares
Markers == {"MarkerA", "MarkerB"}

\* whether a Umem with this marker exists
MarkerAlive(marker) ==
    \E i \in 1..Len(umems) : umems[i].alive /\ umems[i].marker = marker

UmemInit ==
    /\ overflow_checks \in BOOLEAN
    /\ api \in Apis
    /\ USED_MARKERS = {}
    /\ umems = <<>>
    /\ tokens = [m \in Markers |-> 0]
    /\ umem_ret = [op |-> "none", marker |-> "none", number_of_chunks |-> 0,
                   fault |-> "none", result |-> "none", alive_before |-> FALSE,
                   descs |-> <<>>]
    /\ RingIdle
    /\ DescIdle
    /\ SysIdle
    /\ LifeIdle
    /\ WakeIdle
    /\ ConcIdle
    /\ SizeIdle
    /\ RaceIdle

\* Umem::<Marker, CHUNK_SIZE>::new(headroom, number_of_chunks)
UmemNew(marker, number_of_chunks, fault) ==
    /\ Len(umems) < MaxUmems
    /\ LET res == Umem_new(api, USED_MARKERS, marker, fault)
       IN  /\ USED_MARKERS' = res.used_markers
           /\ umems' =
                 IF res.result = "Ok"
                 THEN Append(umems, [marker |-> marker,
                                     number_of_chunks |-> number_of_chunks,
                                     alive |-> TRUE,
                                     descriptors_given_out |-> FALSE,
                                     pools |-> 0,
                                     refused |-> FALSE])
                 ELSE IF res.result = "MarkerAlreadyUsed"
                 THEN [i \in 1..Len(umems) |->
                          IF umems[i].alive /\ umems[i].marker = marker
                          THEN [umems[i] EXCEPT !.refused = TRUE] ELSE umems[i]]
                 ELSE umems
           /\ tokens' = IF res.result = "Ok" /\ api = "token"
                         THEN [tokens EXCEPT ![marker] = @ + 1] ELSE tokens
           /\ umem_ret' = [op |-> "new", marker |-> marker,
                           number_of_chunks |-> number_of_chunks, fault |-> fault,
                           result |-> res.result, alive_before |-> MarkerAlive(marker),
                           descs |-> <<>>,
                           left |-> IF res.result = "MarkerAlreadyUsed"
                                    THEN Umem_new_left(api, "none")
                                    ELSE Umem_new_left(api, fault),
                           retry |-> /\ umem_ret.op = "new"
                                     /\ umem_ret.result = "Rustix"
                                     /\ umem_ret.marker = marker]
    /\ UNCHANGED <<overflow_checks, api, ringVars, descVars, sysVars, lifeVars, wakeVars, concVars, sizeVars, raceVars>>
\* drop(umem)
UmemDrop(i) ==
    /\ umems[i].alive
    /\ USED_MARKERS' = Umem_drop(api, USED_MARKERS, umems[i].marker)
    /\ umems' = [umems EXCEPT ![i].alive = FALSE]
    /\ umem_ret' = [op |-> "drop", marker |-> umems[i].marker,
                    number_of_chunks |-> umems[i].number_of_chunks, fault |-> "none",
                    result |-> "Ok", alive_before |-> TRUE, descs |-> <<>>]
    /\ UNCHANGED <<overflow_checks, api, tokens, ringVars, descVars, sysVars, lifeVars, wakeVars, concVars, sizeVars, raceVars>>
\* umem.descriptors() of the flag generation: None once the flag is set
UmemDescriptors(i) ==
    /\ api = "flag"
    /\ umems[i].alive
    /\ LET given == umems[i].descriptors_given_out
       IN  /\ umems' = [umems EXCEPT ![i].descriptors_given_out = TRUE,
                                      ![i].pools = IF given THEN @ ELSE @ + 1]
           /\ umem_ret' = [op |-> "descriptors", marker |-> umems[i].marker,
                           number_of_chunks |-> umems[i].number_of_chunks,
                           fault |-> "none",
                           result |-> IF given THEN "None" ELSE "Some",
                           alive_before |-> TRUE,
                           descs |-> IF given THEN <<>>
                                     ELSE descriptors(umems[i].number_of_chunks)]
    /\ UNCHANGED <<overflow_checks, api, USED_MARKERS, tokens, ringVars, descVars, sysVars, lifeVars, wakeVars, concVars, sizeVars, raceVars>>
\* umem.descriptors(token) of the token generation: the application passes,
\* and gives up, a DescriptorsToken<Marker> of the Umem's marker type
UmemDescriptorsToken(i) ==
    /\ api = "token"
    /\ umems[i].alive
    /\ tokens[umems[i].marker] > 0
    /\ tokens' = [tokens EXCEPT ![umems[i].marker] = @ - 1]
    /\ umems' = [umems EXCEPT ![i].pools = @ + 1]
    /\ umem_ret' = [op |-> "descriptors", marker |-> umems[i].marker,
                    number_of_chunks |-> umems[i].number_of_chunks, fault |-> "none",
                    result |-> "Some", alive_before |-> TRUE,
                    descs |-> descriptors(umems[i].number_of_chunks)]
    /\ UNCHANGED <<overflow_checks, api, USED_MARKERS, ringVars, descVars, sysVars, lifeVars, wakeVars, concVars, sizeVars, raceVars>>
UmemNext ==
    \/ \E marker \in Markers, number_of_chunks \in 1..MaxChunks, fault \in Faults :
           UmemNew(marker, number_of_chunks, fault)
    \/ \E i \in 1..Len(umems) : UmemDrop(i)
    \/ \E i \in 1..Len(umems) : UmemDescriptors(i)
    \/ \E i \in 1..Len(umems) : UmemDescriptorsToken(i)

UmemSpec == UmemInit /\ [][UmemNext]_vars

-----------------------------------------------------------------------------
(* Spec: one Umem of MaxChunks chunks whose descriptors were handed out,    *)
(* the four rings of its socket, the application and the kernel.  The       *)
(* application converts and mutates the descriptors it holds, pushes them   *)
(* to FILL and TX and pops RX and COMPLETION; the kernel consumes FILL and  *)
(* TX and produces RX and COMPLETION.                                       *)

RingNames == {"fill", "rx", "tx", "completion"}

\* FillRing and CompletionRing carry FillCompFrameDescriptor, RxRing and TxRing
\* carry RxTxFrameDescriptor
RingKind(name) == IF name \in {"fill", "completion"} THEN "FillComp" ELSE "RxTx"

\* arguments the application passes to set_addr_and_length: the two ends of
\* the chunk, with and without a byte of data
SysOffsets == {U64(0), U64(CHUNK_SIZE)}

SysLengths == {U32(0), U32(1)}

\* the length of the frames the kernel receives
RxLen == U32(1)

\* the kernel's validation of an address taken from FILL or TX: inside the UMEM
KernelAccepts(addr) == InUmem(addr, MaxChunks)

\* the kernel takes one address from FILL and, if it is valid, receives a frame
\* into the chunk the address falls into and publishes it on RX
KernelRx(rs) ==
    LET f == rs["fill"]
        r == rs["rx"]
        addr == f.ring_region[LowBits(f.consumer, RING_SIZE)]
        f2 == [f EXCEPT !.consumer = WrapAdd(f.consumer, U32(1))]
        r2 == [r EXCEPT !.ring_region[LowBits(r.producer, RING_SIZE)] =
                           [addr |-> FillComp_base_addr(addr), len |-> RxLen,
                            options |-> EmptyOptions],
                        !.producer = WrapAdd(r.producer, U32(1))]
    IN  [rs EXCEPT !["fill"] = f2, !["rx"] = IF KernelAccepts(addr) THEN r2 ELSE r]

\* the kernel takes one descriptor from TX and, if it is valid, sends the frame
\* and publishes its address on COMPLETION
KernelTx(rs) ==
    LET t == rs["tx"]
        c == rs["completion"]
        d == t.ring_region[LowBits(t.consumer, RING_SIZE)]
        t2 == [t EXCEPT !.consumer = WrapAdd(t.consumer, U32(1))]
        c2 == [c EXCEPT !.ring_region[LowBits(c.producer, RING_SIZE)] = d.addr,
                        !.producer = WrapAdd(c.producer, U32(1))]
    IN  [rs EXCEPT !["tx"] = t2, !["completion"] = IF KernelAccepts(d.addr) THEN c2 ELSE c]

\* the cap on the producer counter of each ring
MayPush(r) == WordLt(r.producer, U32(MaxPublished))

Init ==
    /\ overflow_checks \in BOOLEAN
    /\ app = SetToBag({descriptors(MaxChunks)[i] : i \in 1..MaxChunks})
    /\ rings = [name \in RingNames |-> NewRing(RingKind(name), U32(0))]
    /\ RingIdle
    /\ DescIdle
    /\ UmemIdle
    /\ LifeIdle
    /\ WakeIdle
    /\ ConcIdle
    /\ SizeIdle
    /\ RaceIdle

\* RxTxFrameDescriptor::from(fill_comp_descriptor)
AppIntoRxTx(d) ==
    /\ d.kind = "FillComp"
    /\ app' = (app (-) SetToBag({d})) (+) SetToBag({RxTx_from_FillComp(d)})
    /\ UNCHANGED <<overflow_checks, rings, ringVars, descVars, umemVars, lifeVars, wakeVars, concVars, sizeVars, raceVars>>
\* FillCompFrameDescriptor::from(rx_tx_descriptor)
AppIntoFillComp(d) ==
    /\ d.kind = "RxTx"
    /\ app' = (app (-) SetToBag({d})) (+) SetToBag({FillComp_from_RxTx(d)})
    /\ UNCHANGED <<overflow_checks, rings, ringVars, descVars, umemVars, lifeVars, wakeVars, concVars, sizeVars, raceVars>>
\* descriptor.set_addr_and_length(o, l), on a descriptor whose address is
\* inside the UMEM (the cap that keeps the addresses of the model finite)
AppSetAddrAndLength(d, o, l) ==
    /\ d.kind = "RxTx"
    /\ InUmem(RxTx_base_addr(d.descriptor), MaxChunks)
    /\ LET res == set_addr_and_length(d, o, l)
       IN  /\ res.result # "panic"
           /\ app' = (app (-) SetToBag({d})) (+) SetToBag({res.desc})
    /\ UNCHANGED <<overflow_checks, rings, ringVars, descVars, umemVars, lifeVars, wakeVars, concVars, sizeVars, raceVars>>
\* fill_ring.push(d) and tx_ring.push(d)
AppPush(name, d) ==
    /\ d.kind = RingKind(name)
    /\ MayPush(rings[name])
    /\ LET res == push(rings[name], RingKind(name), d)
       IN  /\ rings' = [rings EXCEPT ![name] = res.ring]
           /\ app' = IF res.tag = "Ok" THEN app (-) SetToBag({d}) ELSE app
    /\ UNCHANGED <<overflow_checks, ringVars, descVars, umemVars, lifeVars, wakeVars, concVars, sizeVars, raceVars>>
\* rx_ring.pop() and completion_ring.pop()
AppPop(name) ==
    /\ LET res == pop(rings[name], RingKind(name))
       IN  /\ rings' = [rings EXCEPT ![name] = res.ring]
           /\ app' = IF res.tag = "Some" THEN app (+) SetToBag({res.value}) ELSE app
    /\ UNCHANGED <<overflow_checks, ringVars, descVars, umemVars, lifeVars, wakeVars, concVars, sizeVars, raceVars>>
\* the kernel moves one entry from FILL to RX
KernelFillToRx ==
    /\ ~is_empty(rings["fill"])
    /\ ~is_full(rings["rx"])
    /\ MayPush(rings["rx"])
    /\ rings' = KernelRx(rings)
    /\ UNCHANGED <<overflow_checks, app, ringVars, descVars, umemVars, lifeVars, wakeVars, concVars, sizeVars, raceVars>>
\* the kernel moves one entry from TX to COMPLETION
KernelTxToCompletion ==
    /\ ~is_empty(rings["tx"])
    /\ ~is_full(rings["completion"])
    /\ MayPush(rings["completion"])
    /\ rings' = KernelTx(rings)
    /\ UNCHANGED <<overflow_checks, app, ringVars, descVars, umemVars, lifeVars, wakeVars, concVars, sizeVars, raceVars>>
Next ==
    \/ \E d \in BagToSet(app) : AppIntoRxTx(d)
    \/ \E d \in BagToSet(app) : AppIntoFillComp(d)
    \/ \E d \in BagToSet(app), o \in SysOffsets, l \in SysLengths :
           AppSetAddrAndLength(d, o, l)
    \/ \E name \in {"fill", "tx"}, d \in BagToSet(app) : AppPush(name, d)
    \/ \E name \in {"rx", "completion"} : AppPop(name)
    \/ KernelFillToRx
    \/ KernelTxToCompletion

Spec == Init /\ [][Next]_vars

-----------------------------------------------------------------------------
(* LifeSpec: one Umem of either generation, the ring sets requested from   *)
(* it, and their teardown.  A drop is performed effect by effect, so the   *)
(* states in the middle of a drop are states of the model; the application *)
(* does nothing else until the drop is through.                            *)

\* calls of bind_socket the model follows
MaxBinds == 3

MapIndices == 0..MaxEntries

World == [umem |-> umem, sockets |-> sockets, xsk_map |-> xsk_map, binds |-> binds]

Before == [xsk_map |-> xsk_map, sockets |-> Len(sockets), binds |-> Len(binds),
           initial_rings_given_out |-> umem.initial_rings_given_out]

LifeInit ==
    /\ overflow_checks \in BOOLEAN
    /\ api \in Apis
    /\ USED_MARKERS = {"MarkerA"}
    /\ umems = <<>>
    /\ tokens = <<>>
    /\ umem_ret = [op |-> "none"]
    /\ umem = [memory |-> "allocated", initial_rings_given_out |-> FALSE,
               socket |-> AnchorSocket, marker |-> "MarkerA", dropped |-> FALSE]
    /\ sockets = <<NewSocket>>
    /\ xsk_map = [index \in 0..(MaxEntries - 1) |-> NoSocket]
    /\ ring_sets = <<>>
    /\ pending = <<>>
    /\ binds = <<>>
    /\ life_ret = [op |-> "none"]
    /\ RingIdle
    /\ DescIdle
    /\ SysIdle
    /\ WakeIdle
    /\ ConcIdle
    /\ SizeIdle
    /\ RaceIdle

\* the state after a call that returned r
Returned(op, map_index, r) ==
    /\ umem' = r.w.umem
    /\ sockets' = r.w.sockets
    /\ xsk_map' = r.w.xsk_map
    /\ binds' = r.w.binds
    /\ ring_sets' = IF r.ring_set = NoRingSet THEN ring_sets
                    ELSE Append(ring_sets, r.ring_set)
    /\ life_ret' = [op |-> op, map_index |-> map_index, result |-> r.result,
                    returned |-> r.returned, before |-> Before,
                    unwound |-> IF "unwound" \in DOMAIN r THEN r.unwound ELSE <<>>]
    /\ UNCHANGED <<overflow_checks, pending, umemVars, ringVars, descVars, sysVars, wakeVars, concVars, sizeVars, raceVars>>

MayCall ==
    /\ pending = <<>>
    /\ ~umem.dropped
    /\ Len(binds) < MaxBinds

StorageRings(map_index, ok1, ok2) ==
    /\ api = "token"
    /\ MayCall
    /\ Returned("rings", map_index, XskMapStorage_rings(World, map_index, ok1, ok2))

UmemRings(map_index, ok1) ==
    /\ api = "flag"
    /\ MayCall
    /\ Returned("rings", map_index, Umem_rings(World, map_index, ok1))

UmemRxTxOnly(map_index, ok1) ==
    /\ api = "flag"
    /\ MayCall
    /\ Returned("rx_tx_only", map_index, Umem_rx_tx_only(World, map_index, ok1))

DropRingSet(set) ==
    /\ pending = <<>>
    /\ ring_sets[set].state = "alive"
    /\ pending' = RingSet_drop(api, set, ring_sets[set])
    /\ ring_sets' = [ring_sets EXCEPT ![set].state = "dropped"]
    /\ life_ret' = [op |-> "drop", set |-> set,
                    map_index |-> ring_sets[set].map_index, before |-> Before]
    /\ UNCHANGED <<overflow_checks, umem, sockets, xsk_map, binds,
                   umemVars, ringVars, descVars, sysVars, wakeVars, concVars, sizeVars, raceVars>>

\* the ring sets borrow the Umem: it is dropped after all of them
DropUmem ==
    /\ pending = <<>>
    /\ ~umem.dropped
    /\ \A set \in 1..Len(ring_sets) : ring_sets[set].state = "dropped"
    /\ pending' = Umem_teardown(api, umem)
    /\ umem' = [umem EXCEPT !.dropped = TRUE]
    /\ life_ret' = [op |-> "drop_umem", before |-> Before]
    /\ UNCHANGED <<overflow_checks, sockets, xsk_map, ring_sets, binds,
                   umemVars, ringVars, descVars, sysVars, wakeVars, concVars, sizeVars, raceVars>>

\* the next effect of the drop in progress
TeardownStep ==
    /\ pending # <<>>
    /\ pending' = IF Head(pending).ev = "unset"
                   THEN after_deregister(deregister(World, Head(pending).index).result,
                                         Tail(pending))
                   ELSE Tail(pending)
    /\ LET e == Head(pending)
           w == IF e.ev = "unset" THEN XskMapEntry_drop(World, e.index)
                ELSE IF e.ev = "drop_socket" THEN DropArc(World, e.socket, 1)
                ELSE IF e.ev = "dealloc" THEN [World EXCEPT !.umem.memory = "freed"]
                ELSE World
       IN  /\ umem' = w.umem
           /\ sockets' = w.sockets
           /\ xsk_map' = w.xsk_map
           /\ ring_sets' =
                 IF e.ev = "unset"
                 THEN [ring_sets EXCEPT ![e.set].entry = FALSE,
                                        ![e.set].unset = deregister(World, e.index).result]
                 ELSE IF e.ev = "munmap"
                 THEN [ring_sets EXCEPT ![e.set].mapped = @ \ {e.ring}]
                 ELSE ring_sets
           /\ USED_MARKERS' =
                 IF e.ev = "release_marker"
                 THEN Umem_drop(api, USED_MARKERS, umem.marker)
                 ELSE USED_MARKERS
    /\ UNCHANGED <<overflow_checks, binds, life_ret, api, umems, tokens, umem_ret,
                   ringVars, descVars, sysVars, wakeVars, concVars, sizeVars, raceVars>>

LifeNext ==
    \/ \E map_index \in MapIndices, ok1 \in BOOLEAN, ok2 \in BOOLEAN :
           StorageRings(map_index, ok1, ok2)
    \/ \E map_index \in MapIndices, ok1 \in BOOLEAN : UmemRings(map_index, ok1)
    \/ \E map_index \in MapIndices, ok1 \in BOOLEAN : UmemRxTxOnly(map_index, ok1)
    \/ \E set \in 1..Len(ring_sets) : DropRingSet(set)
    \/ DropUmem
    \/ TeardownStep

LifeSpec == LifeInit /\ [][LifeNext]_vars

\* LifeFaultSpec: LifeSpec with the XSKMAP also in other hands: an element of
\* the map is deleted from outside the library, so that the unset of a ring
\* set's drop finds no entry and fails

\* bpf_map_delete_elem on the XSKMAP by another holder of the map, between two
\* operations of the application; the model follows one deletion at a time
ExternalUnset(index) ==
    /\ pending = <<>>
    /\ \A set \in 1..Len(ring_sets) :
          /\ ring_sets[set].unset # "Err"
          /\ ring_sets[set].state = "alive" =>
                 xsk_map[ring_sets[set].map_index] = ring_sets[set].socket
    /\ index \in DOMAIN xsk_map
    /\ xsk_map[index] # NoSocket
    /\ xsk_map' = [xsk_map EXCEPT ![index] = NoSocket]
    /\ UNCHANGED <<overflow_checks, umem, sockets, ring_sets, pending, binds, life_ret,
                   umemVars, ringVars, descVars, sysVars, wakeVars, concVars, sizeVars, raceVars>>

LifeFaultNext ==
    \/ LifeNext
    \/ \E index \in MapIndices : ExternalUnset(index)

LifeFaultSpec == LifeInit /\ [][LifeFaultNext]_vars

-----------------------------------------------------------------------------
(* WakeSpec: one ring of a bound socket, the flags word the kernel keeps in *)
(* the ring's memory, and the application calling needs_wakeup and poke.    *)

\* syscalls the model follows
MaxSyscalls == 3

FlagWords == 0..(2 ^ FlagBits - 1)

\* the last call, without the call before it
Last == [op |-> wake_ret.op, result |-> wake_ret.result, saw |-> wake_ret.saw]

WakeInit ==
    /\ overflow_checks \in BOOLEAN
    /\ wake_ring \in RingNames
    /\ ring_flags \in {<<>>, <<0>>}
    /\ syscalls = <<>>
    /\ wake_ret = [op |-> "none", result |-> FALSE, saw |-> <<>>, issued |-> <<>>,
                   prev |-> [op |-> "none", result |-> FALSE, saw |-> <<>>]]
    /\ RingIdle
    /\ DescIdle
    /\ UmemIdle
    /\ SysIdle
    /\ LifeIdle
    /\ ConcIdle
    /\ SizeIdle
    /\ RaceIdle

\* the kernel rewrites the flags word of a ring that has one
KernelSetsFlags(word) ==
    /\ ring_flags # <<>>
    /\ ring_flags' = <<word>>
    /\ UNCHANGED <<overflow_checks, wake_ring, syscalls, wake_ret,
                   ringVars, descVars, umemVars, sysVars, lifeVars, concVars, sizeVars, raceVars>>

WakeNeedsWakeup ==
    /\ wake_ret' = [op |-> "needs_wakeup", result |-> needs_wakeup(ring_flags),
                    saw |-> ring_flags, issued |-> <<>>, prev |-> Last]
    /\ UNCHANGED <<overflow_checks, wake_ring, ring_flags, syscalls,
                   ringVars, descVars, umemVars, sysVars, lifeVars, concVars, sizeVars, raceVars>>

\* poke; ok is whether the kernel lets the syscall succeed (poke unwraps it)
WakePoke(ok) ==
    /\ wake_ring # "completion"
    /\ Len(syscalls) < MaxSyscalls
    /\ LET issued == poke(wake_ring, ring_flags)
       IN  /\ syscalls' = syscalls \o issued
           /\ wake_ret' = [op |-> "poke",
                           result |-> issued = <<>> \/ ok,
                           saw |-> ring_flags, issued |-> issued, prev |-> Last]
    /\ UNCHANGED <<overflow_checks, wake_ring, ring_flags,
                   ringVars, descVars, umemVars, sysVars, lifeVars, concVars, sizeVars, raceVars>>

WakeNext ==
    \/ \E word \in FlagWords : KernelSetsFlags(word)
    \/ WakeNeedsWakeup
    \/ \E ok \in BOOLEAN : WakePoke(ok)

WakeSpec == WakeInit /\ [][WakeNext]_vars

-----------------------------------------------------------------------------
(* ConcSpec: one ring with the application on one side and the kernel on    *)
(* the other, each running its push or pop access by access, interleaved in *)
(* every way.  The kernel follows the same protocol on its side.            *)

Sides == {"producer", "consumer"}

\* descriptors offered to push: of the first and of the last chunk
ConcInputs(kind) ==
    {d \in RingInputs(kind) : d.memory \in {U64(0), U64((MaxChunks - 1) * CHUNK_SIZE)}}

\* (push and pop use wrapping arithmetic only: the build makes no difference)
ConcInit ==
    /\ overflow_checks = FALSE
    /\ side \in Sides
    /\ ring_kind \in DescriptorKinds
    /\ \E start \in StartCounters : ring = NewRing(ring_kind, start)
    /\ ring_ret = [op |-> "none", start |-> ring.producer, published |-> 0, consumed |-> 0]
    /\ pushed = <<>>
    /\ popped = <<>>
    /\ pusher = [at |-> 0]
    /\ popper = [at |-> 0]
    /\ DescIdle
    /\ UmemIdle
    /\ SysIdle
    /\ LifeIdle
    /\ WakeIdle
    /\ SizeIdle
    /\ RaceIdle

\* a push begins: the full test and the load of the producer counter
PushBegin(input) ==
    /\ pusher.at = 0
    /\ Len(pushed) < MaxPushes
    /\ pusher' = push_begin(ring, ring_kind, input)
    /\ pushed' = IF pusher'.at = 0 THEN pushed ELSE Append(pushed, input)
    /\ UNCHANGED <<overflow_checks, side, popper, ring_kind, ring, ring_ret, popped,
                   descVars, umemVars, sysVars, lifeVars, wakeVars, sizeVars, raceVars>>

\* the next access of the push in progress
PushStep ==
    /\ pusher.at # 0
    /\ ring' = push_step(ring, pusher)
    /\ ring_ret' = [ring_ret EXCEPT !.op = PushOrder[pusher.at],
                       !.published = IF PushOrder[pusher.at] = "set_producer"
                                     THEN @ + 1 ELSE @]
    /\ pusher' = IF Advance(pusher.at, PushOrder) = 0 THEN [at |-> 0]
                  ELSE [pusher EXCEPT !.at = Advance(@, PushOrder)]
    /\ UNCHANGED <<overflow_checks, side, popper, ring_kind, pushed, popped,
                   descVars, umemVars, sysVars, lifeVars, wakeVars, sizeVars, raceVars>>

\* a pop begins: the empty test and the load of the consumer counter
PopBegin ==
    /\ popper.at = 0
    /\ popper' = pop_begin(ring)
    /\ popper'.at # 0
    /\ UNCHANGED <<overflow_checks, side, pusher, ringVars,
                   descVars, umemVars, sysVars, lifeVars, wakeVars, sizeVars, raceVars>>

\* the next access of the pop in progress
PopStep ==
    /\ popper.at # 0
    /\ LET res == pop_step(ring, popper)
       IN  /\ ring' = res.ring
           /\ popped' = IF res.read = <<>> THEN popped
                        ELSE Append(popped, from_ring_repr(ring_kind, res.read[1],
                                                           umem_memory))
    /\ ring_ret' = [ring_ret EXCEPT !.op = PopOrder[popper.at],
                       !.consumed = IF PopOrder[popper.at] = "set_consumer"
                                    THEN @ + 1 ELSE @]
    /\ popper' = IF Advance(popper.at, PopOrder) = 0 THEN [at |-> 0]
                  ELSE [popper EXCEPT !.at = Advance(@, PopOrder)]
    /\ UNCHANGED <<overflow_checks, side, pusher, ring_kind, pushed,
                   descVars, umemVars, sysVars, lifeVars, wakeVars, sizeVars, raceVars>>

AppPushBegin(input) == side = "producer" /\ PushBegin(input)

AppPushStep == side = "producer" /\ PushStep

KernelPopBegin == side = "producer" /\ PopBegin

KernelPopStep == side = "producer" /\ PopStep

AppPopBegin == side = "consumer" /\ PopBegin

AppPopStep == side = "consumer" /\ PopStep

KernelPushBegin(input) == side = "consumer" /\ PushBegin(input)

KernelPushStep == side = "consumer" /\ PushStep

ConcNext ==
    \/ \E input \in ConcInputs(ring_kind) : AppPushBegin(input)
    \/ AppPushStep
    \/ KernelPopBegin
    \/ KernelPopStep
    \/ AppPopBegin
    \/ AppPopStep
    \/ \E input \in ConcInputs(ring_kind) : KernelPushBegin(input)
    \/ KernelPushStep

ConcSpec == ConcInit /\ [][ConcNext]_vars

-----------------------------------------------------------------------------
\* SizeSpec: the ring types instantiated at one RING_SIZE, then counters at
\* a fill level the ring's capacity allows

Exponents == 0..63

\* the values of RING_SIZE tried: around every power of two, zero and usize::MAX
SizeCandidates ==
    {Pow2(k) : k \in Exponents}
        \cup {WrapSub(Pow2(k), U64(1)) : k \in Exponents}
        \cup {WrapAdd(Pow2(k), U64(1)) : k \in Exponents}
        \cup {U64(0), U64(3), U64(6), U64(12)}

\* the fill levels tried for a ring of this size: 0, 1, size - 1, size
FillLevels(size) == {U64(0), U64(1), WrapSub(size, U64(1)), size}

SizeInit ==
    /\ overflow_checks = FALSE
    /\ ring_size \in SizeCandidates
    /\ size_ret = [op |-> "none"]
    /\ RingIdle
    /\ DescIdle
    /\ UmemIdle
    /\ SysIdle
    /\ LifeIdle
    /\ WakeIdle
    /\ ConcIdle
    /\ RaceIdle

\* the ring types are instantiated: the const block is evaluated
InternalNew ==
    /\ size_ret.op = "none"
    /\ size_ret' = [op |-> "new", accepted |-> const_assert(ring_size)]
    /\ UNCHANGED <<overflow_checks, ring_size, ringVars, descVars, umemVars, sysVars,
                   lifeVars, wakeVars, concVars, raceVars>>

\* the counters after level more pushes than pops, starting from consumer
Counters(consumer, level) ==
    /\ size_ret.op = "new"
    /\ size_ret.accepted
    /\ LET producer == WrapAdd(consumer, as_u32(level))
       IN  size_ret' = [op |-> "counters", accepted |-> TRUE, level |-> level,
                        producer |-> producer, consumer |-> consumer,
                        filled |-> filled_entries_at(producer, consumer),
                        free |-> free_entries_at(ring_size, producer, consumer),
                        full |-> is_full_at(ring_size, producer, consumer)]
    /\ UNCHANGED <<overflow_checks, ring_size, ringVars, descVars, umemVars, sysVars,
                   lifeVars, wakeVars, concVars, raceVars>>

SizeNext ==
    \/ InternalNew
    \/ \E consumer \in StartCounters, level \in FillLevels(ring_size) :
          Counters(consumer, level)

SizeSpec == SizeInit /\ [][SizeNext]_vars

-----------------------------------------------------------------------------
\* CounterSpec: push, pop and the fill-level accessors applied once to an
\* InnerRing built, as the unit tests build it, over any pair of counter
\* values and a slot array with a different descriptor in every slot

\* counter values tried: around 0, around RING_SIZE, the middle, around u32::MAX
CounterValues ==
    StartCounters \cup {U32(1), U32(4), U32(5), as_u32(Pow2(31)),
                        WrapSub(U32(0), U32(4)), WrapSub(U32(0), U32(5))}

\* the ring representation stored in slot i before the call
SlotRepr(kind, i) ==
    IF kind = "RxTx"
    THEN [addr |-> U64(i * CHUNK_SIZE + i), len |-> U32(i), options |-> EmptyOptions]
    ELSE U64(i * CHUNK_SIZE + i)

\* InnerRing::new over the given counters and a filled slot array
RingAt(kind, producer, consumer) ==
    [producer |-> producer, consumer |-> consumer,
     ring_region |-> [i \in 0..(RING_SIZE - 1) |-> SlotRepr(kind, i)]]

CounterInit ==
    /\ overflow_checks \in BOOLEAN
    /\ ring_kind \in DescriptorKinds
    /\ \E producer \in CounterValues, consumer \in CounterValues :
          ring = RingAt(ring_kind, producer, consumer)
    /\ ring_ret = [op |-> "none", input |-> NoDesc, tag |-> "none",
                   value |-> NoDesc, before |-> ring]
    /\ pushed = <<>>
    /\ popped = <<>>
    /\ DescIdle
    /\ UmemIdle
    /\ SysIdle
    /\ LifeIdle
    /\ WakeIdle
    /\ ConcIdle
    /\ SizeIdle
    /\ RaceIdle

\* ring.push(input) on the ring as built
CounterPush(input) ==
    /\ ring_ret.op = "none"
    /\ RingPush(input)

\* ring.pop() on the ring as built
CounterPop ==
    /\ ring_ret.op = "none"
    /\ RingPop

\* filled_entries(), free_entries(), is_empty() and is_full() on the ring as built
CounterQuery ==
    /\ ring_ret.op = "none"
    /\ ring_ret' = [op |-> "query", input |-> NoDesc, tag |-> "none", value |-> NoDesc,
                    before |-> ring,
                    filled_entries |-> filled_entries(ring),
                    free_entries |-> free_entries(ring),
                    is_empty |-> is_empty(ring),
                    is_full |-> is_full(ring)]
    /\ UNCHANGED <<overflow_checks, ring_kind, ring, pushed, popped, descVars, umemVars,
                   sysVars, lifeVars, wakeVars, concVars, sizeVars, raceVars>>

CounterNext ==
    \/ \E input \in RingInputs(ring_kind) : CounterPush(input)
    \/ CounterPop
    \/ CounterQuery

CounterSpec == CounterInit /\ [][CounterNext]_vars

-----------------------------------------------------------------------------
(* Claims about the ring on its own (RingSpec).                             *)

\* the fill level in the claim's words: (producer - consumer) mod 2^32
Filled(r) == WrapSub(r.producer, r.consumer)

\* C1: for a ring that starts empty, after any interleaving of successful
\* pushes and pops, (producer - consumer) mod 2^32 is the number of pushes
\* minus the number of pops, it lies in [0, RING_SIZE], the popped elements
\* are the pushed elements in push order, and the elements not yet popped sit
\* in the slots from the consumer index on.
C1_RingFifo ==
    /\ Len(popped) <= Len(pushed)
    /\ Len(pushed) - Len(popped) <= RING_SIZE
    /\ Filled(ring) = U32(Len(pushed) - Len(popped))
    /\ \A i \in 1..Len(popped) :
           into_ring_repr(ring_kind, popped[i]) = into_ring_repr(ring_kind, pushed[i])
    /\ \A j \in 1..(Len(pushed) - Len(popped)) :
           ring.ring_region[LowBits(WrapAdd(ring.consumer, U32(j - 1)), RING_SIZE)]
               = into_ring_repr(ring_kind, pushed[Len(popped) + j])

\* C1's case: the producer counter has wrapped past the consumer counter and
\* two different descriptors have been popped
C1_Witness ==
    /\ WordLt(ring.producer, ring.consumer)
    /\ Len(popped) >= 2
    /\ popped[1] # popped[2]
    /\ Len(pushed) > Len(popped)

\* C2: push on a full ring (producer - consumer = RING_SIZE) returns Err with
\* exactly the descriptor passed in and leaves the ring, the producer counter
\* included, unchanged.
C2_PushFull ==
    (ring_ret.op = "push" /\ Filled(ring_ret.before) = U32(RING_SIZE))
        => /\ ring_ret.tag = "Err"
           /\ ring_ret.value = ring_ret.input
           /\ ring.producer = ring_ret.before.producer
           /\ ring = ring_ret.before

\* C2's case: a push was made on a full ring
C2_Witness ==
    /\ ring_ret.op = "push"
    /\ Filled(ring_ret.before) = U32(RING_SIZE)
    /\ ring_ret.tag = "Err"

\* C3: pop on an empty ring (producer = consumer, whatever the value) returns
\* None and leaves the consumer counter unchanged.
C3_PopEmpty ==
    (ring_ret.op = "pop" /\ ring_ret.before.producer = ring_ret.before.consumer)
        => /\ ring_ret.tag = "None"
           /\ ring_ret.value = NoDesc
           /\ ring.consumer = ring_ret.before.consumer

\* C3's case: a pop was made on a ring that is empty at a counter value other
\* than 0, after elements went through it
C3_Witness ==
    /\ ring_ret.op = "pop"
    /\ ring_ret.before.producer = ring_ret.before.consumer
    /\ ring_ret.before.consumer # U32(0)
    /\ Len(popped) >= 1
    /\ ring_ret.tag = "None"

-----------------------------------------------------------------------------
(* Claims about the descriptor mutators and conversions (DescSpec).         *)

Setters == {"set_addr_and_length", "set_length", "set_addr"}

\* the mathematical sum o + l is at most CHUNK_SIZE (o of 64 bits, l of 32)
SumWithinChunk(o, l) ==
    /\ ~AddOverflows(o, Widen(l))
    /\ WordLe(WrapAdd(o, Widen(l)), U64(CHUNK_SIZE))

\* C8: for every offset o and length l, set_addr_and_length(o, l) succeeds iff
\* the mathematical sum o + l is <= CHUNK_SIZE, and when it does not succeed it
\* returns ExceedsChunkSize and leaves the descriptor unchanged; likewise
\* set_length(l) with o = data_offset() and set_addr(o) with l = length().
C8_SetterIffWithinChunk ==
    desc_ret.op \in Setters
        => /\ (desc_ret.result = "Ok") <=> SumWithinChunk(desc_ret.o, desc_ret.l)
           /\ desc_ret.result # "Ok"
                  => (desc_ret.result = "ExceedsChunkSize" /\ desc = desc_ret.before)

\* C9: every RxTxFrameDescriptor the application holds has
\* data_offset() + length() <= CHUNK_SIZE.
C9_OffsetPlusLengthWithinChunk ==
    desc.kind = "RxTx" => SumWithinChunk(data_offset(desc), desc.descriptor.len)

\* C10: FillComp -> RxTx -> FillComp preserves base_addr, and so does
\* RxTx -> FillComp -> RxTx, for aligned and unaligned addresses.
C10_RoundTripBaseAddr ==
    /\ (desc_ret.op = "into_fill_comp" /\ desc_ret.origin # NoDesc)
           => /\ desc_ret.origin.kind = "FillComp"
              /\ desc.kind = "FillComp"
              /\ FillComp_base_addr(desc.addr) = FillComp_base_addr(desc_ret.origin.addr)
    /\ (desc_ret.op = "into_rx_tx" /\ desc_ret.origin # NoDesc)
           => /\ desc_ret.origin.kind = "RxTx"
              /\ desc.kind = "RxTx"
              /\ RxTx_base_addr(desc.descriptor) = RxTx_base_addr(desc_ret.origin.descriptor)

\* C10's case: a round trip FillComp -> RxTx -> FillComp was made from an
\* unaligned address in a chunk other than the first
C10_Witness ==
    /\ desc_ret.op = "into_fill_comp"
    /\ desc_ret.origin # NoDesc
    /\ desc_ret.origin.addr # FillComp_base_addr(desc_ret.origin.addr)
    /\ FillComp_base_addr(desc_ret.origin.addr) # U64(0)

-----------------------------------------------------------------------------
(* Claims about the Umem, its marker and its descriptor pool (UmemSpec).    *)

\* C5: at most one Umem per marker type exists at any time; while one is
\* alive, Umem::new for the same marker fails with MarkerAlreadyUsed; once it
\* has been dropped, Umem::new for that marker succeeds again (when the kernel
\* calls succeed).
C5_MarkerUnique ==
    /\ \A i, j \in 1..Len(umems) :
           (i # j /\ umems[i].alive /\ umems[j].alive) => umems[i].marker # umems[j].marker
    /\ umem_ret.op = "new"
           => /\ umem_ret.alive_before => umem_ret.result = "MarkerAlreadyUsed"
              /\ (~umem_ret.alive_before /\ umem_ret.fault = "none")
                     => umem_ret.result = "Ok"

\* C5's case: Umem::new has succeeded for a marker whose earlier Umem refused
\* a second construction while alive and has since been dropped
C5_Witness ==
    /\ umem_ret.op = "new"
    /\ umem_ret.result = "Ok"
    /\ \E i \in 1..(Len(umems) - 1) :
           /\ umems[i].marker = umem_ret.marker
           /\ umems[i].refused
           /\ ~umems[i].alive

\* C6: on a Umem of N chunks the descriptors returned are exactly N, for each
\* chunk index c in 0..N-1 exactly one of them has base_addr = c * CHUNK_SIZE,
\* no two share a chunk, and every address lies inside the UMEM.
C6_OnePerChunk ==
    (umem_ret.op = "descriptors" /\ umem_ret.result = "Some")
        => LET n == umem_ret.number_of_chunks
               d == umem_ret.descs
           IN  /\ Len(d) = n
               /\ \A c \in 0..(n - 1) :
                      Cardinality({i \in 1..Len(d) :
                          FillComp_base_addr(d[i].addr) = U64(c * CHUNK_SIZE)}) = 1
               /\ \A i, j \in 1..Len(d) : i # j => d[i].memory # d[j].memory
               /\ \A i \in 1..Len(d) : InUmem(d[i].addr, n)

\* C6's case: descriptors were handed out for a Umem of more than one chunk
C6_Witness ==
    /\ umem_ret.op = "descriptors"
    /\ umem_ret.result = "Some"
    /\ umem_ret.number_of_chunks > 1
    /\ Len(umem_ret.descs) > 1

\* C7: for any sequence of operations on a Umem, at most one call of
\* descriptors() yields descriptors; no second set of descriptors for the same
\* chunks is handed out.
C7_PoolHandedOutOnce ==
    \A i \in 1..Len(umems) : umems[i].pools <= 1

-----------------------------------------------------------------------------
(* Claims about the circulation of chunks (Spec).                           *)

\* the base address of chunk c
ChunkBase(c) == U64(c * CHUNK_SIZE)

\* the number of descriptors of the application that borrow chunk c
AppHolds(c) ==
    LET mine == {d \in BagToSet(app) : d.memory = byte_add(umem_memory, ChunkBase(c))}
    IN  BagCardinality([d \in mine |-> CopiesIn(d, app)])

\* the address of a ring entry
SlotAddr(name, slot) == IF RingKind(name) = "RxTx" THEN slot.addr ELSE slot

\* the number of entries between consumer and producer of a ring whose
\* address falls into chunk c
RingHolds(name, c) ==
    LET r == rings[name]
    IN  Cardinality({k \in 1..RING_SIZE :
            /\ WordLt(U32(k - 1), Filled(r))
            /\ FillComp_base_addr(SlotAddr(name,
                   r.ring_region[LowBits(WrapAdd(r.consumer, U32(k - 1)), RING_SIZE)]))
                 = ChunkBase(c)})

\* C4: at every instant each chunk is held by exactly one holder: one
\* descriptor of the application, or one entry of FILL, RX, TX or COMPLETION.
C4_OneHolderPerChunk ==
    \A c \in 0..(MaxChunks - 1) :
        AppHolds(c) + RingHolds("fill", c) + RingHolds("rx", c)
            + RingHolds("tx", c) + RingHolds("completion", c) = 1

-----------------------------------------------------------------------------
(* Teardown order (LifeSpec).                                               *)

\* the rings of ring set `set` whose memory has been unmapped
Unmapped(set) ==
    {RingsOf(ring_sets[set].shape)[k] : k \in 1..Len(RingsOf(ring_sets[set].shape))}
        \ ring_sets[set].mapped

\* unset(index) of ring set `set` has happened
UnsetDone(set) == ~ring_sets[set].entry

\* C11: when a ring set is dropped, unset(index) on the XSKMAP happens before
\* munmap of any ring memory of that ring set, FILL, COMPLETION, RX and TX
\* alike: no ring of a ring set is unmapped while its unset is still to come.
C11_UnsetBeforeMunmap ==
    \A set \in 1..Len(ring_sets) : Unmapped(set) # {} => UnsetDone(set)

\* C12: in every teardown sequence produced by dropping ring sets and the
\* Umem, the XSKMAP entry of a socket is removed before the fd of that socket
\* is closed: the XSKMAP never holds a closed socket.
C12_NoClosedSocketInMap ==
    \A index \in DOMAIN xsk_map :
        xsk_map[index] # NoSocket => sockets[xsk_map[index]].open

\* C12's case: a ring set on a socket of its own was registered and has been
\* dropped, its socket is closed; and the Umem's teardown has closed the anchor
C12_Witness ==
    /\ \E set \in 1..Len(ring_sets) :
          /\ ring_sets[set].socket # umem.socket
          /\ ring_sets[set].state = "dropped"
          /\ ~sockets[ring_sets[set].socket].open
    /\ \E set \in 1..Len(ring_sets) : ring_sets[set].socket = umem.socket
    /\ ~sockets[umem.socket].open

\* C13: when a Umem is dropped, the anchor socket is closed, then the UMEM
\* memory is freed, then the marker is released: the memory is never freed
\* while the anchor socket is open, and the marker is never released before
\* the memory is freed and the socket is closed.
C13_UmemTeardownOrder ==
    /\ umem.memory = "freed" => ~sockets[umem.socket].open
    /\ umem.marker \notin USED_MARKERS =>
          umem.memory = "freed" /\ ~sockets[umem.socket].open

-----------------------------------------------------------------------------
(* bind_socket, xsk_map_socket and the XSKMAP (LifeSpec).                   *)

\* the last operation was a request for a ring set
LastWasRequest == life_ret.op \in {"rings", "rx_tx_only"}

\* the ring sets that are alive
Alive == {set \in 1..Len(ring_sets) : ring_sets[set].state = "alive"}

\* C14: over any sequence of bind_socket calls on one Umem, exactly the first
\* call binds in initial mode (USE_NEED_WAKEUP, no shared fd) and every later
\* call binds with SHARED_UMEM and shared_umem_fd the anchor socket.
C14_FirstInitialRestShared ==
    \A k \in 1..Len(binds) :
        IF k = 1
        THEN binds[k].mode = "initial" /\ binds[k].shared_umem_fd = NoSocket
        ELSE binds[k].mode = "shared" /\ binds[k].shared_umem_fd = umem.socket

\* C14's case: three calls of bind_socket, a failed one among them
C14_Witness ==
    /\ Len(binds) >= 3
    /\ \E k \in 1..Len(binds) : ~binds[k].ok
    /\ \E k \in 1..Len(binds) : binds[k].ok /\ binds[k].mode = "shared"

\* C15: the anchor role is claimed by the first successful bind: after a
\* failed bind in initial mode the next bind_socket binds in initial mode
\* again, and SHARED_UMEM binds come only after an initial bind that succeeded.
C15_AnchorBySuccessfulBind ==
    /\ \A k \in 1..(Len(binds) - 1) :
          binds[k].mode = "initial" /\ ~binds[k].ok => binds[k + 1].mode = "initial"
    /\ \A k \in 1..Len(binds) :
          binds[k].mode = "shared" =>
              \E j \in 1..(k - 1) : binds[j].mode = "initial" /\ binds[j].ok

C17_MapMirrorsAliveRingSets ==
    pending = <<>> =>
        /\ \A index \in DOMAIN xsk_map :
              xsk_map[index] # NoSocket <=>
                  \E set \in Alive : ring_sets[set].map_index = index
        /\ \A set \in Alive : xsk_map[ring_sets[set].map_index] = ring_sets[set].socket
        /\ life_ret.op = "drop" =>
              xsk_map = [life_ret.before.xsk_map EXCEPT ![life_ret.map_index] = NoSocket]

\* C17's case: two ring sets at two indices were alive and one has been
\* dropped, the other is still registered
C17_Witness ==
    /\ pending = <<>>
    /\ life_ret.op = "drop"
    /\ Alive # {}
    /\ \E index \in DOMAIN xsk_map : xsk_map[index] # NoSocket

\* the last request named a map index that was occupied
RequestAtOccupiedIndex ==
    /\ LastWasRequest
    /\ life_ret.map_index \in DOMAIN life_ret.before.xsk_map
    /\ life_ret.before.xsk_map[life_ret.map_index] # NoSocket

\* C18: registering a socket at an occupied XSKMAP index fails, creates no
\* XskMapEntry and leaves the existing entry in place; at most one live
\* XskMapEntry exists per index.
C18_OccupiedIndexRefused ==
    /\ RequestAtOccupiedIndex =>
          /\ life_ret.result \in {"Err", "panic"}
          /\ xsk_map = life_ret.before.xsk_map
          /\ \A set \in 1..Len(ring_sets) :
                ring_sets[set].socket \in 1..life_ret.before.sockets
    /\ \A s, t \in 1..Len(ring_sets) :
          /\ s # t
          /\ ring_sets[s].entry
          /\ ring_sets[t].entry
          => ring_sets[s].map_index # ring_sets[t].map_index

\* C18's case: a request at an occupied index whose socket was bound, so that
\* the registration was attempted
C18_Witness ==
    /\ RequestAtOccupiedIndex
    /\ binds[Len(binds)].ok
    /\ Len(binds) > life_ret.before.binds

-----------------------------------------------------------------------------
(* Wakeup (WakeSpec).                                                       *)

\* the flags word is present and its XDP_RING_NEED_WAKEUP bit is set
NeedWakeupSet(word_or_none) ==
    /\ word_or_none # <<>>
    /\ (word_or_none[1] \div XDP_RING_NEED_WAKEUP) % 2 = 1

\* C19: needs_wakeup() returns true iff the ring has a flags word and the
\* XDP_RING_NEED_WAKEUP bit is set in its current value, whatever the other
\* bits are, and false when there is no flags word; each call reads the word
\* anew (saw is the word in the ring at the time of the call).
C19_NeedsWakeupIffBitSet ==
    wake_ret.op = "needs_wakeup" => (wake_ret.result <=> NeedWakeupSet(wake_ret.saw))

\* C19's case: the bit is set beside another bit and the call returns true,
\* after a call that returned false before the kernel changed the word
C19_Witness ==
    /\ wake_ret.op = "needs_wakeup"
    /\ wake_ret.result
    /\ wake_ret.saw # <<>>
    /\ wake_ret.saw[1] > XDP_RING_NEED_WAKEUP
    /\ wake_ret.prev.op = "needs_wakeup"
    /\ ~wake_ret.prev.result

\* the wakeup syscall of a ring
WakeupSyscall(name) == IF name = "tx" THEN "sendto" ELSE "recvfrom"

\* C20: poke on an RX, TX or FILL ring issues exactly one non-blocking wakeup
\* syscall (recvfrom for RX and FILL, sendto for TX) whenever NEED_WAKEUP is
\* set in the flags word, that is exactly when needs_wakeup() is true, and
\* none when the flag is clear or there is no flags word.
C20_PokeIffNeedWakeup ==
    wake_ret.op = "poke" =>
        wake_ret.issued = IF NeedWakeupSet(wake_ret.saw)
                          THEN <<WakeupSyscall(wake_ring)>> ELSE <<>>

-----------------------------------------------------------------------------
(* Conversions between the descriptor kinds (DescSpec).                     *)

\* C21: conversion between the two descriptor kinds is total and keeps the
\* chunk: FillComp -> RxTx yields len = 0 and empty options on the same chunk
\* memory; RxTx -> FillComp yields addr = base_addr of the source, the
\* intra-chunk offset discarded, on the same chunk memory; none fails.
C21_ConversionsTotalKeepChunk ==
    /\ desc_ret.op = "into_rx_tx"
          => /\ desc_ret.result = "Ok"
             /\ desc_ret.before.kind = "FillComp"
             /\ desc.kind = "RxTx"
             /\ desc.descriptor.len = U32(0)
             /\ desc.descriptor.options = EmptyOptions
             /\ desc.memory = desc_ret.before.memory
    /\ desc_ret.op = "into_fill_comp"
          => /\ desc_ret.result = "Ok"
             /\ desc_ret.before.kind = "RxTx"
             /\ desc.kind = "FillComp"
             /\ desc.addr = RxTx_base_addr(desc_ret.before.descriptor)
             /\ LowBits(desc.addr, CHUNK_SIZE) = 0
             /\ desc.memory = desc_ret.before.memory

\* C21's case: an RxTx descriptor with data at an offset inside a chunk other
\* than the first was converted to FillComp and back to RxTx
C21_Witness ==
    /\ desc_ret.op = "into_rx_tx"
    /\ desc_ret.origin # NoDesc
    /\ desc_ret.origin.descriptor.len # U32(0)
    /\ desc_ret.origin.descriptor.addr # RxTx_base_addr(desc_ret.origin.descriptor)
    /\ desc.memory # U64(0)

-----------------------------------------------------------------------------
(* The ring under concurrency (ConcSpec).                                   *)

\* the slot of the j-th descriptor pushed since the ring was mapped
SlotOf(j) == LowBits(WrapAdd(ring_ret.start, U32(j - 1)), RING_SIZE)

\* C22: with the kernel running on the other side of the ring, push writes
\* the slot before it publishes producer + 1 and pop reads the slot before it
\* publishes consumer + 1: in every interleaving each slot below the published
\* producer counter and not yet released by the consumer holds the descriptor
\* pushed for it (the producer never overwrites a slot the consumer has not
\* released), and every slot read returns the descriptor pushed for it.
C22_SlotBeforeCounter ==
    /\ ring_ret.consumed <= ring_ret.published
    /\ ring_ret.published - ring_ret.consumed <= RING_SIZE
    /\ \A j \in (ring_ret.consumed + 1)..ring_ret.published :
          ring.ring_region[SlotOf(j)] = into_ring_repr(ring_kind, pushed[j])
    /\ \A i \in 1..Len(popped) :
          into_ring_repr(ring_kind, popped[i]) = into_ring_repr(ring_kind, pushed[i])

\* C22's case: the application is the consumer, the counters have wrapped, a
\* slot is in use for the second time, and a push and a pop are both in
\* progress, the pop having read its slot
C22_Witness ==
    /\ side = "consumer"
    /\ Len(pushed) > RING_SIZE
    /\ WordLt(ring.producer, ring_ret.start)
    /\ pusher.at # 0
    /\ popper.at # 0
    /\ PopOrder[popper.at] = "set_consumer"

\* C23: a ring can be instantiated exactly at the RING_SIZE values that are a
\* power of two and at most 2^31, and at every accepted RING_SIZE the
\* wrapping difference producer - consumer is the fill level
C23_AcceptedIffPow2UpTo2_31 ==
    /\ size_ret.op # "none" =>
          (size_ret.accepted <=> \E k \in 0..31 : ring_size = Pow2(k))
    /\ size_ret.op = "counters" =>
          /\ Widen(size_ret.filled) = size_ret.level
          /\ size_ret.full <=> size_ret.level = ring_size

\* C24: when Umem::new fails after it acquired the marker (socket_with or
\* set_xdp_umem_reg fails), the marker is out of USED_MARKERS again, the UMEM
\* memory is freed and no clone of the socket is left, and a Umem::new with
\* the same marker that follows is not rejected with MarkerAlreadyUsed.
C24_FailedNewReleasesAll ==
    /\ (umem_ret.op = "new" /\ umem_ret.result = "Rustix") =>
          /\ umem_ret.marker \notin USED_MARKERS
          /\ umem_ret.left.released
          /\ umem_ret.left.memory = 0
          /\ umem_ret.left.strong = 0
    /\ (umem_ret.op = "new" /\ umem_ret.retry) =>
          umem_ret.result # "MarkerAlreadyUsed"

C24_Witness ==
    /\ umem_ret.op = "new"
    /\ umem_ret.retry
    /\ umem_ret.result = "Rustix"
    /\ umem_ret.fault = "set_xdp_umem_reg"
    /\ api = "flag"
    /\ USED_MARKERS # {}

\* the fill level the claims speak of: (producer - consumer) mod 2^32
Difference(r) == WrapSub(r.producer, r.consumer)

\* the slot a counter value indexes: counter & (RING_SIZE - 1)
SlotIndex(counter) == LowBits(counter, RING_SIZE)

C26_PopAtConsumerSlot ==
    (ring_ret.op = "pop" /\ ring_ret.before.producer # ring_ret.before.consumer) =>
        LET b == ring_ret.before
        IN  /\ ring_ret.tag = "Some"
            /\ into_ring_repr(ring_kind, ring_ret.value)
                  = b.ring_region[SlotIndex(b.consumer)]
            /\ ring.consumer = WrapAdd(b.consumer, U32(1))
            /\ ring.producer = b.producer
            /\ ring.ring_region = b.ring_region

\* consumer = 2^32 - 1 and producer = 0: slot 3 is popped, consumer is left at 0
C26_Witness ==
    /\ ring_ret.op = "pop"
    /\ ring_ret.before.consumer = MaxWord(2)
    /\ ring_ret.before.producer = U32(0)
    /\ into_ring_repr(ring_kind, ring_ret.value) = ring_ret.before.ring_region[3]
    /\ ring.consumer = U32(0)

\* C27: in every state with (producer - consumer) mod 2^32 <= RING_SIZE:
\* filled_entries() is that difference, free_entries() is RING_SIZE minus it,
\* is_empty() iff filled_entries() = 0, is_full() iff free_entries() = 0, and
\* the two are never both true.
C27_FillLevelAccessors ==
    (ring_ret.op = "query" /\ WordLe(Difference(ring_ret.before), U32(RING_SIZE))) =>
        /\ ring_ret.filled_entries = Difference(ring_ret.before)
        /\ ring_ret.free_entries = WrapSub(U32(RING_SIZE), ring_ret.filled_entries)
        /\ ring_ret.is_empty <=> ring_ret.filled_entries = U32(0)
        /\ ring_ret.is_full <=> ring_ret.free_entries = U32(0)
        /\ ~(ring_ret.is_empty /\ ring_ret.is_full)

\* a full ring whose producer wrapped and whose consumer did not
C27_Witness ==
    /\ ring_ret.op = "query"
    /\ WordLt(ring_ret.before.producer, ring_ret.before.consumer)
    /\ Difference(ring_ret.before) = U32(RING_SIZE)
    /\ ring_ret.is_full
    /\ ~ring_ret.is_empty

\* C28: a socket is inserted into the XSKMAP only after bind_socket on that
\* socket has succeeded: the XSKMAP never holds a socket that is not bound.
C28_MapHoldsOnlyBoundSockets ==
    \A index \in DOMAIN xsk_map :
        xsk_map[index] # NoSocket => sockets[xsk_map[index]].bound # "no"

\* the map holds the anchor, bound on its own, and a socket bound with XDP_SHARED_UMEM
C28_Witness ==
    /\ \E index \in DOMAIN xsk_map :
          xsk_map[index] # NoSocket /\ sockets[xsk_map[index]].bound = "shared"
    /\ \E index \in DOMAIN xsk_map :
          xsk_map[index] # NoSocket /\ sockets[xsk_map[index]].bound = "initial"
    /\ \E i \in 1..Len(binds) : ~binds[i].ok

\* C29: a two-ring set is produced only for a second-or-later socket: before
\* any two-ring set a four-ring set was created, and bound, on the same Umem,
\* and the first ring set obtained from a Umem is a four-ring set.
C29_TwoOnlyAfterFour ==
    \A s \in 1..Len(ring_sets) :
        ring_sets[s].shape = "Two" =>
            \E t \in 1..(s - 1) :
                /\ ring_sets[t].shape = "Four"
                /\ sockets[ring_sets[t].socket].bound # "no"

\* rings() returned after the bind of its first-attempt socket had failed
FirstBindFailed ==
    /\ life_ret.op = "rings"
    /\ life_ret.result # "panic"
    /\ Len(binds) > life_ret.before.binds
    /\ ~binds[life_ret.before.binds + 1].ok

\* the socket of the first attempt of the last rings()
FirstSocket == life_ret.returned[1]

\* C30: when the bind of the first-attempt socket fails inside rings(), by the
\* time rings() returns the four ring mappings of that attempt are unmapped,
\* its socket is closed unless it is the anchor, which the Umem keeps, and the
\* XSKMAP holds no entry for it.
C30_FirstAttemptReleased ==
    FirstBindFailed =>
        /\ binds[life_ret.before.binds + 1].socket = FirstSocket
        /\ {e.ring : e \in {life_ret.unwound[i] : i \in
                               {k \in DOMAIN life_ret.unwound :
                                   life_ret.unwound[k].ev = "munmap"}}}
              = {"rx", "tx", "fill", "completion"}
        /\ sockets[FirstSocket].open <=> FirstSocket = umem.socket
        /\ sockets[FirstSocket].strong = (IF FirstSocket = umem.socket THEN 1 ELSE 0)
        /\ \A index \in DOMAIN xsk_map : xsk_map[index] # FirstSocket

\* rings() came back with a two-ring set after its first bind failed
C30_Witness ==
    /\ FirstBindFailed
    /\ life_ret.result = "Two"
    /\ Len(life_ret.returned) = 2
    /\ ~sockets[FirstSocket].open
    /\ \E index \in DOMAIN xsk_map : xsk_map[index] = life_ret.returned[2]

\* C38: push, successful or not, leaves the consumer counter alone and writes
\* at most the slot producer & (RING_SIZE - 1); pop, successful or not, leaves
\* the producer counter alone and writes no slot.
C38_PushPopFrame ==
    /\ ring_ret.op = "push" =>
          /\ ring.consumer = ring_ret.before.consumer
          /\ \A i \in DOMAIN ring.ring_region :
                i # SlotIndex(ring_ret.before.producer) =>
                    ring.ring_region[i] = ring_ret.before.ring_region[i]
    /\ ring_ret.op = "pop" =>
          /\ ring.producer = ring_ret.before.producer
          /\ ring.ring_region = ring_ret.before.ring_region

\* a pop that succeeded on a ring whose producer counter had wrapped
C38_Witness ==
    /\ ring_ret.op = "pop"
    /\ ring_ret.tag = "Some"
    /\ ring.consumer # ring_ret.before.consumer
    /\ WordLt(ring_ret.before.producer, ring_ret.before.consumer)

\* C37: a Umem::new that fails with MarkerAlreadyUsed leaves USED_MARKERS as it
\* was, the marker of the existing Umem still in it, and as long as that Umem
\* is alive a creation with its marker fails with MarkerAlreadyUsed.
C37_RefusalKeepsRegistry ==
    [][(umem_ret'.op = "new" /\ umem_ret'.result = "MarkerAlreadyUsed") =>
          /\ USED_MARKERS' = USED_MARKERS
          /\ umem_ret'.marker \in USED_MARKERS'
          /\ \E i \in 1..Len(umems') :
                umems'[i].alive /\ umems'[i].marker = umem_ret'.marker
          /\ (umem_ret.op = "new" /\ umem_ret.result = "MarkerAlreadyUsed"
                 /\ umem_ret'.marker = umem_ret.marker)
                => umem_ret'.result = "MarkerAlreadyUsed"]_vars

\* a creation was refused by the marker of a Umem that is alive
C37_Witness ==
    /\ umem_ret.op = "new"
    /\ umem_ret.result = "MarkerAlreadyUsed"
    /\ umem_ret.marker \in USED_MARKERS
    /\ \E i \in 1..Len(umems) :
          umems[i].alive /\ umems[i].marker = umem_ret.marker /\ umems[i].refused

\* C33: a successful set_addr_and_length(o, l), set_addr(o) or set_length(l)
\* never moves the descriptor to another chunk: for every accepted (o, l),
\* o = CHUNK_SIZE with l = 0 included, base_addr() is what it was,
\* data_offset() = o and length() = l, and the conversion to
\* FillCompFrameDescriptor publishes the address of the chunk whose memory the
\* descriptor holds.
C33_SetterKeepsChunk ==
    (desc_ret.op \in Setters /\ desc_ret.result = "Ok") =>
        /\ DescBase(desc) = DescBase(desc_ret.before)
        /\ data_offset(desc) = desc_ret.o
        /\ desc.descriptor.len = desc_ret.l
        /\ byte_add(umem_memory, FillComp_from_RxTx(desc).addr) = desc.memory

\* C31: when unset(index) fails while a ring set's XskMapEntry is dropped, the
\* failure is only logged: the drop goes on, every ring memory of the ring set
\* that is still mapped is still to be unmapped, and all are unmapped when the
\* drop is through.
C31_FailedUnsetDropContinues ==
    \A set \in 1..Len(ring_sets) :
        ring_sets[set].unset = "Err" =>
            \A name \in ring_sets[set].mapped :
                \E i \in DOMAIN pending : pending[i] = Munmap(set, name)

\* the drop of a four-ring set is through, its unset had failed
C31_Witness ==
    \E set \in 1..Len(ring_sets) :
        /\ ring_sets[set].unset = "Err"
        /\ ring_sets[set].shape = "Four"
        /\ ring_sets[set].state = "dropped"
        /\ ring_sets[set].mapped = {}
        /\ pending = <<>>

\* C35: with the other side advancing its counter after the application
\* loaded it, the application's view is conservative: the true fill level
\* never exceeds RING_SIZE, the fill level a push saw is at least the true one
\* and the slot it writes is free, and the entries a pop saw are published
\* and the slot it reads is one of them.
C35_StaleViewConservative ==
    /\ WordLe(Difference(ring), U32(RING_SIZE))
    /\ pusher.at # 0 =>
          /\ WordLe(WrapSub(pusher.producer, ring.consumer),
                    WrapSub(pusher.producer, pusher.seen))
          /\ WordLt(WrapSub(pusher.producer, ring.consumer), U32(RING_SIZE))
    /\ popper.at # 0 =>
          /\ WordLe(WrapSub(popper.seen, popper.consumer),
                    WrapSub(ring.producer, popper.consumer))
          /\ WordLt(U32(0), WrapSub(ring.producer, popper.consumer))
    /\ (popper.at # 0 /\ pusher.at # 0) =>
          SlotIndex(pusher.producer) # SlotIndex(popper.consumer)
             \/ PopOrder[popper.at] = "set_consumer"

\* the application is about to write a slot of a ring it saw with one free
\* entry, and the kernel has consumed every entry since
C35_Witness ==
    /\ side = "producer"
    /\ pusher.at # 0
    /\ PushOrder[pusher.at] = "write_slot"
    /\ WrapSub(pusher.producer, pusher.seen) = U32(RING_SIZE - 1)
    /\ ring.consumer = ring.producer
    /\ WordLt(ring.producer, ring_ret.start)

-----------------------------------------------------------------------------
(* RetrySpec: the application on the producer side of one ring and the      *)
(* kernel consuming it.  A push refused by a full ring returns its          *)
(* descriptor (`Err(input)`), and the application calls push with that      *)
(* descriptor again until it is taken.  The kernel goes on consuming and    *)
(* the application goes on retrying, which the fairness conditions state.   *)

\* counter values the ring starts from: zero, and three before the wrap
RetryStarts == {U32(0), WrapSub(U32(0), U32(3))}

RetryInit ==
    /\ overflow_checks = FALSE
    /\ side = "producer"
    /\ ring_kind \in DescriptorKinds
    /\ \E start \in RetryStarts : ring = NewRing(ring_kind, start)
    /\ ring_ret = [op |-> "none", start |-> ring.producer, published |-> 0, consumed |-> 0,
                   held |-> NoDesc, after_retry |-> FALSE]
    /\ pushed = <<>>
    /\ popped = <<>>
    /\ pusher = [at |-> 0]
    /\ popper = [at |-> 0]
    /\ DescIdle
    /\ UmemIdle
    /\ SysIdle
    /\ LifeIdle
    /\ WakeIdle
    /\ SizeIdle
    /\ RaceIdle

\* Ring::push up to its first slot access; held is the descriptor a full
\* ring gave back, which the next call offers again
RetryPush(input) ==
    /\ pusher.at = 0
    /\ Len(pushed) < MaxPushes
    /\ ring_ret.held # NoDesc => input = ring_ret.held
    /\ pusher' = push_begin(ring, ring_kind, input)
    /\ pushed' = IF pusher'.at = 0 THEN pushed ELSE Append(pushed, input)
    /\ ring_ret' = IF pusher'.at = 0
                   THEN [ring_ret EXCEPT !.op = "full", !.held = input]
                   ELSE [ring_ret EXCEPT !.op = "push", !.held = NoDesc,
                                         !.after_retry = ring_ret.held # NoDesc]
    /\ UNCHANGED <<overflow_checks, side, popper, ring_kind, ring, popped,
                   descVars, umemVars, sysVars, lifeVars, wakeVars, sizeVars, raceVars>>

\* the call that offers the returned descriptor again
RetryHeld == ring_ret.held # NoDesc /\ RetryPush(ring_ret.held)

RetryNext ==
    \/ \E input \in ConcInputs(ring_kind) : RetryPush(input)
    \/ AppPushStep
    \/ KernelPopBegin
    \/ KernelPopStep

RetrySpec ==
    /\ RetryInit
    /\ [][RetryNext]_vars
    /\ WF_vars(KernelPopBegin)
    /\ WF_vars(KernelPopStep)
    /\ WF_vars(RetryHeld)
    /\ WF_vars(AppPushStep)

\* C39: with the kernel consuming and the application retrying, a descriptor
\* returned by a full ring is eventually accepted; until then no call changes
\* the ring, the accepting call records exactly that descriptor once, and
\* every accepted call publishes exactly one entry
C39_RetryEventuallyPushedOnce ==
    /\ (ring_ret.held # NoDesc) ~> (ring_ret.held = NoDesc /\ ring_ret.after_retry)
    /\ [][ring_ret.held # NoDesc =>
             /\ pusher.at = 0
             /\ \/ pushed' = pushed /\ ring_ret'.held = ring_ret.held
                \/ /\ pushed' = Append(pushed, ring_ret.held)
                   /\ ring_ret'.held = NoDesc
                   /\ pusher'.input = into_ring_repr(ring_kind, ring_ret.held)
                   /\ ring' = ring]_vars
    /\ [](Len(pushed) = ring_ret.published + IF pusher.at # 0 THEN 1 ELSE 0)
    /\ [](WordLe(Difference(ring), U32(RING_SIZE)))

\* a descriptor that a full ring returned has been accepted by a later call
\* and is published, after the kernel consumed an entry
C39_Witness ==
    /\ ring_ret.after_retry
    /\ ring_ret.held = NoDesc
    /\ ring_ret.op = "set_producer"
    /\ ring_ret.consumed > 0
    /\ Len(pushed) > RING_SIZE
    /\ ring.ring_region[SlotIndex(WrapSub(ring.producer, U32(1)))]
          = into_ring_repr(ring_kind, pushed[Len(pushed)])

-----------------------------------------------------------------------------
(* MarkerRaceSpec: several threads calling Umem::new for one marker type    *)
(* and dropping the Umem they got.  USED_MARKERS is a static behind a       *)
(* Mutex: every insert and every remove holds the lock for its own          *)
(* statement, and other threads run between two statements of a call.       *)

\* threads racing on the shared value
MaxThreads == 2

Threads == 1..MaxThreads

\* the marker type the threads contend for
RaceMarker == "MarkerA"

Idle(ret) == [pc |-> "idle", pending |-> <<>>, ret |-> ret]

MarkerRaceInit ==
    /\ overflow_checks = FALSE
    /\ api \in Apis
    /\ USED_MARKERS = {}
    /\ umems = <<>>
    /\ tokens = <<>>
    /\ umem_ret = [op |-> "none"]
    /\ threads = [t \in Threads |-> Idle("none")]
    /\ mutex = 0
    /\ history = <<>>
    /\ RingIdle
    /\ DescIdle
    /\ SysIdle
    /\ LifeIdle
    /\ WakeIdle
    /\ ConcIdle
    /\ SizeIdle

\* Umem::new up to its return or to the `?` that returns the kernel's error:
\* the insert under the lock, then what is built; what is left to drop after
\* an error is dropped in the thread's next steps
RaceNew(t, fault) ==
    /\ threads[t].pc = "idle"
    /\ LET guard == MarkerGuard_new(USED_MARKERS, RaceMarker)
       IN  /\ USED_MARKERS' = guard.used_markers
           /\ threads' = [threads EXCEPT ![t] =
                  IF guard.result # "Ok" THEN Idle("MarkerAlreadyUsed")
                  ELSE IF fault = "none"
                  THEN [pc |-> "alive", pending |-> <<>>, ret |-> "Ok"]
                  ELSE [pc |-> "unwinding", pending |-> Umem_new_unwind(api, fault),
                        ret |-> "Rustix"]]
    /\ UNCHANGED <<overflow_checks, api, umems, tokens, umem_ret, mutex, history,
                   ringVars, descVars, sysVars, lifeVars, wakeVars, concVars, sizeVars>>

\* the Umem a thread owns goes out of scope
RaceDrop(t) ==
    /\ threads[t].pc = "alive"
    /\ threads' = [threads EXCEPT ![t] =
           [pc |-> "dropping", pending |-> Umem_teardown(api, [socket |-> AnchorSocket]),
            ret |-> "dropped"]]
    /\ UNCHANGED <<overflow_checks, umemVars, mutex, history,
                   ringVars, descVars, sysVars, lifeVars, wakeVars, concVars, sizeVars>>

\* the next effect of the drop or of the error return in progress; a removal
\* of the marker locks USED_MARKERS for that statement
RaceStep(t) ==
    /\ threads[t].pending # <<>>
    /\ USED_MARKERS' = IF Head(threads[t].pending).ev = "release_marker"
                       THEN MarkerGuard_drop(USED_MARKERS, RaceMarker)
                       ELSE USED_MARKERS
    /\ threads' = [threads EXCEPT ![t] =
           IF Tail(threads[t].pending) = <<>> THEN Idle(threads[t].ret)
           ELSE [@ EXCEPT !.pending = Tail(@)]]
    /\ UNCHANGED <<overflow_checks, api, umems, tokens, umem_ret, mutex, history,
                   ringVars, descVars, sysVars, lifeVars, wakeVars, concVars, sizeVars>>

MarkerRaceNext ==
    \/ \E t \in Threads, fault \in Faults : RaceNew(t, fault)
    \/ \E t \in Threads : RaceDrop(t)
    \/ \E t \in Threads : RaceStep(t)

MarkerRaceSpec == MarkerRaceInit /\ [][MarkerRaceNext]_vars

\* the threads that own a Umem of the marker
Owners == {t \in Threads : threads[t].pc = "alive"}

\* C36: under every interleaving of Umem::new and drop for one marker at most
\* one thread owns a Umem of that marker, and a marker someone owns is in the
\* registry, so that a racing creation is refused
C36_OneAlivePerMarker ==
    /\ Cardinality(Owners) <= 1
    /\ Owners # {} => RaceMarker \in USED_MARKERS

\* the same, in the token generation alone
TokenGenerationOneAlive ==
    api = "token" => C36_OneAlivePerMarker

-----------------------------------------------------------------------------
(* RingsRaceSpec: threads sharing one Umem of the token generation (it is   *)
(* Sync by `unsafe impl`), each calling XskMapStorage::rings once.  A call  *)
(* advances statement by statement: xsk_map_socket (a load of               *)
(* initial_rings_given_out), the creation of the rings on the socket, the   *)
(* swap in bind_socket, the bind itself, XskMapEntry::new.  The kernel      *)
(* decides every request; it sets up each ring of a socket once.            *)

\* setsockopt of the ring sizes and the mmaps: the kernel refuses a socket
\* that has these rings already
KernelRings(socket, ok) ==
    /\ ok
    /\ \A i \in DOMAIN history :
          ~(history[i].ev = "rings" /\ history[i].socket = socket /\ history[i].ok)

\* bind_socket, its swap: the mode the call binds in, and the flag after
bind_socket_swap(w) ==
    [mode |-> IF w.umem.initial_rings_given_out THEN "shared" ELSE "initial",
     w |-> [w EXCEPT !.umem.initial_rings_given_out = TRUE]]

\* bind_socket, its bind in the mode the swap chose
bind_socket_bind(w, socket, mode, ok) ==
    LET shared_umem_fd == IF mode = "shared" THEN w.umem.socket ELSE NoSocket
        bound == KernelBind(w, socket, mode, shared_umem_fd, ok)
        call == [mode |-> mode, socket |-> socket,
                 shared_umem_fd |-> shared_umem_fd, ok |-> bound]
    IN  [w |-> [w EXCEPT !.sockets[socket].bound = IF bound THEN mode ELSE @,
                         !.binds = Append(@, call)],
         ok |-> bound]

At(pc, socket, mode, attempt) ==
    [pc |-> pc, socket |-> socket, mode |-> mode, attempt |-> attempt]

RingsRaceInit ==
    /\ overflow_checks = FALSE
    /\ api = "token"
    /\ USED_MARKERS = {"MarkerA"}
    /\ umems = <<>>
    /\ tokens = <<>>
    /\ umem_ret = [op |-> "none"]
    /\ umem = [memory |-> "allocated", initial_rings_given_out |-> FALSE,
               socket |-> AnchorSocket, marker |-> "MarkerA", dropped |-> FALSE]
    /\ sockets = <<NewSocket>>
    /\ xsk_map = [index \in 0..(MaxEntries - 1) |-> NoSocket]
    /\ ring_sets = <<>>
    /\ pending = <<>>
    /\ binds = <<>>
    /\ life_ret = [op |-> "none"]
    /\ threads = [t \in Threads |-> At("idle", NoSocket, "none", 1)]
    /\ mutex = 0
    /\ history = <<>>
    /\ RingIdle
    /\ DescIdle
    /\ SysIdle
    /\ WakeIdle
    /\ ConcIdle
    /\ SizeIdle

\* `let socket = self.umem.xsk_map_socket();` of the first or second attempt
RaceSocket(t) ==
    /\ threads[t].pc \in {"idle", "retry"}
    /\ LET s == xsk_map_socket(World)
       IN  /\ sockets' = s.w.sockets
           /\ threads' = [threads EXCEPT ![t] = At("rings", s.socket, "none", @.attempt)]
           /\ history' = Append(history, [ev |-> "handed", thread |-> t,
                                          socket |-> s.socket, ok |-> TRUE])
    /\ UNCHANGED <<overflow_checks, umemVars, umem, xsk_map, ring_sets, pending, binds,
                   life_ret, mutex, ringVars, descVars, sysVars, wakeVars, concVars,
                   sizeVars>>

\* RxRing::new(..).unwrap() and the rings after it
RaceRings(t, ok) ==
    /\ threads[t].pc = "rings"
    /\ LET created == KernelRings(threads[t].socket, ok)
       IN  /\ threads' = [threads EXCEPT ![t].pc = IF created THEN "swap" ELSE "panic"]
           /\ history' = Append(history, [ev |-> "rings", thread |-> t,
                                          socket |-> threads[t].socket, ok |-> created])
    /\ UNCHANGED <<overflow_checks, umemVars, lifeVars, mutex,
                   ringVars, descVars, sysVars, wakeVars, concVars, sizeVars>>

\* `self.initial_rings_given_out.swap(true, Ordering::AcqRel)`
RaceSwap(t) ==
    /\ threads[t].pc = "swap"
    /\ LET s == bind_socket_swap(World)
       IN  /\ umem' = s.w.umem
           /\ threads' = [threads EXCEPT ![t].pc = "bind", ![t].mode = s.mode]
    /\ UNCHANGED <<overflow_checks, umemVars, sockets, xsk_map, ring_sets, pending, binds,
                   life_ret, mutex, history, ringVars, descVars, sysVars, wakeVars,
                   concVars, sizeVars>>

\* the bind; the first attempt tests is_ok, the second unwraps
RaceBind(t, ok) ==
    /\ threads[t].pc = "bind"
    /\ LET b == bind_socket_bind(World, threads[t].socket, threads[t].mode, ok)
       IN  /\ sockets' = b.w.sockets
           /\ binds' = b.w.binds
           /\ threads' = [threads EXCEPT ![t] =
                  IF b.ok THEN [@ EXCEPT !.pc = "entry"]
                  ELSE IF @.attempt = 1 THEN [@ EXCEPT !.pc = "retry", !.attempt = 2]
                  ELSE [@ EXCEPT !.pc = "panic"]]
    /\ UNCHANGED <<overflow_checks, umemVars, umem, xsk_map, ring_sets, pending,
                   life_ret, mutex, history, ringVars, descVars, sysVars, wakeVars,
                   concVars, sizeVars>>

\* XskMapEntry::new(self, map_index, socket.as_fd()).unwrap(), and the return
RaceEntry(t, map_index) ==
    /\ threads[t].pc = "entry"
    /\ LET e == XskMapEntry_new(World, map_index, threads[t].socket)
       IN  /\ xsk_map' = e.w.xsk_map
           /\ threads' = [threads EXCEPT ![t].pc =
                  IF e.result = "Ok" THEN "done" ELSE "panic"]
    /\ UNCHANGED <<overflow_checks, umemVars, umem, sockets, ring_sets, pending, binds,
                   life_ret, mutex, history, ringVars, descVars, sysVars, wakeVars,
                   concVars, sizeVars>>

RingsRaceNext ==
    \/ \E t \in Threads : RaceSocket(t)
    \/ \E t \in Threads, ok \in BOOLEAN : RaceRings(t, ok)
    \/ \E t \in Threads : RaceSwap(t)
    \/ \E t \in Threads, ok \in BOOLEAN : RaceBind(t, ok)
    \/ \E t \in Threads, map_index \in MapIndices : RaceEntry(t, map_index)

RingsRaceSpec == RingsRaceInit /\ [][RingsRaceNext]_vars

\* the calls of bind_socket in the given mode
BindsIn(mode) == {i \in DOMAIN binds : binds[i].mode = mode}

\* the calls of rings() that hold the anchor socket for the ring set they
\* are building or have returned
HoldAnchor ==
    {t \in Threads : threads[t].socket = umem.socket /\ threads[t].pc # "panic"}

\* C34: in every interleaving of the threads' rings() calls the anchor socket
\* is with one ring set at most, at most one bind is in initial mode, it is
\* on the anchor socket and it is there once a ring set was returned, and no
\* SHARED_UMEM bind is on the anchor socket
C34_AnchorHandedOnce ==
    /\ Cardinality(HoldAnchor) <= 1
    /\ Cardinality(BindsIn("initial")) <= 1
    /\ \A i \in BindsIn("initial") : binds[i].socket = umem.socket
    /\ (\E t \in Threads : threads[t].pc = "done") => BindsIn("initial") # {}
    /\ \A i \in BindsIn("shared") : binds[i].socket # umem.socket

\* the binds alone: one initial bind at most, on the anchor socket, and no
\* SHARED_UMEM bind on the anchor socket
BindsOnAnchor ==
    /\ Cardinality(BindsIn("initial")) <= 1
    /\ \A i \in BindsIn("initial") : binds[i].socket = umem.socket
    /\ (\E t \in Threads : threads[t].pc = "done") => BindsIn("initial") # {}
    /\ \A i \in BindsIn("shared") : binds[i].socket # umem.socket

-----------------------------------------------------------------------------
(* MapRaceSpec: threads sharing one XskMapStorage, each calling register    *)
(* and deregister.  A call locks the Mutex around the map, runs set_element *)
(* or unset_element (which looks at the slot and then changes it) and       *)
(* releases the lock when the guard goes out of scope at the end of the     *)
(* statement.                                                               *)

\* calls of register and deregister the model follows
MaxOps == 3

\* sockets the threads register
RaceSockets == {1, 2}

\* a Mutex that lets every caller in
Mutex_lock_unguarded(m) == TRUE

\* Mutex::lock returns when no other thread holds the guard
Mutex_lock(m) == m = 0

NoCall == [pc |-> "idle", op |-> "none", index |-> 0, socket |-> NoSocket, seen |-> NoSocket]

\* the threads inside set_element or unset_element
InMap == {t \in Threads : threads[t].pc # "idle"}

\* what `op` returns and leaves in the map, run on its own
RunOp(map, e) ==
    IF e.op = "register" THEN set_element(map, e.socket, e.index)
    ELSE unset_element(map, e.index)

\* the map after the first n calls of h, one after the other
RECURSIVE Replay(_, _, _)
Replay(map, h, n) ==
    IF n = 0 THEN map ELSE RunOp(Replay(map, h, n - 1), h[n]).map

EmptyMap == [index \in 0..(MaxEntries - 1) |-> NoSocket]

MapRaceInit ==
    /\ overflow_checks = FALSE
    /\ api = "token"
    /\ USED_MARKERS = {"MarkerA"}
    /\ umems = <<>>
    /\ tokens = <<>>
    /\ umem_ret = [op |-> "none"]
    /\ umem = [memory |-> "allocated", initial_rings_given_out |-> FALSE,
               socket |-> AnchorSocket, marker |-> "MarkerA", dropped |-> FALSE]
    /\ sockets = <<NewSocket>>
    /\ xsk_map = EmptyMap
    /\ ring_sets = <<>>
    /\ pending = <<>>
    /\ binds = <<>>
    /\ life_ret = [op |-> "none"]
    /\ threads = [t \in Threads |-> NoCall]
    /\ mutex = 0
    /\ history = <<>>
    /\ RingIdle
    /\ DescIdle
    /\ SysIdle
    /\ WakeIdle
    /\ ConcIdle
    /\ SizeIdle

\* `self.xsk_map.lock().unwrap()` of register or deregister
MapLock(t, op, index, socket) ==
    /\ threads[t].pc = "idle"
    /\ Len(history) + Cardinality(InMap) < MaxOps
    /\ op = "deregister" => socket = NoSocket
    /\ op = "register" => socket # NoSocket
    /\ Mutex_lock(mutex)
    /\ mutex' = t
    /\ threads' = [threads EXCEPT ![t] =
           [pc |-> "locked", op |-> op, index |-> index, socket |-> socket,
            seen |-> NoSocket]]
    /\ UNCHANGED <<overflow_checks, umemVars, lifeVars, history,
                   ringVars, descVars, sysVars, wakeVars, concVars, sizeVars>>

\* set_element / unset_element looks at the slot
MapLook(t) ==
    /\ threads[t].pc = "locked"
    /\ threads' = [threads EXCEPT ![t].pc = "looked",
                                  ![t].seen = IF threads[t].index \in DOMAIN xsk_map
                                              THEN xsk_map[threads[t].index]
                                              ELSE NoSocket]
    /\ UNCHANGED <<overflow_checks, umemVars, lifeVars, mutex, history,
                   ringVars, descVars, sysVars, wakeVars, concVars, sizeVars>>

\* set_element / unset_element changes the slot as what it saw tells it to
MapChange(t) ==
    /\ threads[t].pc = "looked"
    /\ LET index == threads[t].index
           as_seen == IF index \in DOMAIN xsk_map
                      THEN [xsk_map EXCEPT ![index] = threads[t].seen] ELSE xsk_map
           r == RunOp(as_seen, threads[t])
       IN  /\ xsk_map' = IF index \in DOMAIN xsk_map
                         THEN [xsk_map EXCEPT ![index] = r.map[index]] ELSE xsk_map
           /\ history' = Append(history, [thread |-> t, op |-> threads[t].op,
                                          index |-> index, socket |-> threads[t].socket,
                                          result |-> r.result])
    /\ threads' = [threads EXCEPT ![t].pc = "changed"]
    /\ UNCHANGED <<overflow_checks, umemVars, umem, sockets, ring_sets, pending, binds,
                   life_ret, mutex, ringVars, descVars, sysVars, wakeVars, concVars,
                   sizeVars>>

\* the MutexGuard is dropped at the end of the statement
MapUnlock(t) ==
    /\ threads[t].pc = "changed"
    /\ mutex' = 0
    /\ threads' = [threads EXCEPT ![t] = NoCall]
    /\ UNCHANGED <<overflow_checks, umemVars, lifeVars, history,
                   ringVars, descVars, sysVars, wakeVars, concVars, sizeVars>>

MapRaceNext ==
    \/ \E t \in Threads, op \in {"register", "deregister"}, index \in MapIndices,
          socket \in RaceSockets \cup {NoSocket} : MapLock(t, op, index, socket)
    \/ \E t \in Threads : MapLook(t)
    \/ \E t \in Threads : MapChange(t)
    \/ \E t \in Threads : MapUnlock(t)

MapRaceSpec == MapRaceInit /\ [][MapRaceNext]_vars

\* C32: at most one thread is inside set_element or unset_element, it is the
\* holder of the lock, and the map and every call's result are those of the
\* calls run one after the other in the order they changed the map
C32_MapCallsSerialized ==
    /\ Cardinality(InMap) <= 1
    /\ \A t \in InMap : mutex = t
    /\ xsk_map = Replay(EmptyMap, history, Len(history))
    /\ \A n \in 1..Len(history) :
          history[n].result = RunOp(Replay(EmptyMap, history, n - 1), history[n]).result

\* a thread holds the lock inside deregister after two other calls, by
\* another thread among them, went through: a register that took the slot and
\* a register of the same slot that was refused
C32_Witness ==
    /\ Len(history) = 2
    /\ history[1].op = "register" /\ history[1].result = "Ok"
    /\ history[2].op = "register" /\ history[2].result = "Err"
    /\ history[2].index = history[1].index
    /\ history[2].thread # history[1].thread
    /\ \E t \in Threads : /\ mutex = t
                          /\ threads[t].op = "deregister"
                          /\ threads[t].pc = "looked"
                          /\ threads[t].seen = history[1].socket

====
